---- MODULE Spec2Model ----
(***************************************************************************)
(* Model of the settlers crate: the fixed board topology (game/board.rs),  *)
(* the move derivations over a Game (moves/possible_moves.rs), the         *)
(* resource economy (game/resources.rs) and the text codec                 *)
(* (game/encoding.rs).                                                     *)
(*                                                                         *)
(* A Game is a record [board |-> [tiles], state |-> [buildings, roads,     *)
(* robber, resources]]; Vec values are sequences, HashSet values are sets, *)
(* a HashMap is a function on its key set, a String is a TLA+ string.      *)
(* A call that unwinds (index out of bounds, unwrap on None/Err, expect)   *)
(* yields the value Panic; a Result is [tag |-> "Ok", ...] or              *)
(* [tag |-> "Err"].                                                        *)
(***************************************************************************)
EXTENDS Integers, Sequences, FiniteSets, TLC

VARIABLES
    game,     \* the Game value the caller holds
    text,     \* the String the caller holds (codec input / output)
    stock,    \* the ResourceCount the purchase queries run on
    calls,    \* the most recent calls with their arguments and results
    placed,   \* number of state mutations made since construction
    search    \* the recursive search in progress: its call stack and locals

vars == <<game, text, stock, calls, placed, search>>

----------------------------------------------------------------------------
(* Bounds of the model *)

\* roads / buildings pushed onto the state after construction
MaxPlaced == 2
\* largest per-field resource count explored by the purchase queries
MaxStock == 3
\* number of cost deductions applied to a stock
MaxSubs == 2

----------------------------------------------------------------------------
(* game/board.rs *)

PATHS == 72
INTERSECTIONS == 54
TILES == 19

Player == {"Red", "Blue", "White"}
BuildingKind == {"Settlement", "City"}
TileKind == {"Grain", "Wool", "Brick", "Lumber", "Ore", "Nothing"}

\* Board::new, the paths array; entry i+1 is Path i
BoardPaths ==
    << <<0, 1>>, <<1, 2>>, <<2, 3>>, <<3, 4>>, <<4, 5>>, <<5, 6>>,
       <<0, 8>>, <<2, 10>>, <<4, 12>>, <<6, 14>>, <<8, 7>>, <<8, 9>>,
       <<9, 10>>, <<10, 11>>, <<11, 12>>, <<12, 13>>, <<13, 14>>, <<14, 15>>,
       <<7, 17>>, <<9, 19>>, <<11, 21>>, <<13, 23>>, <<15, 25>>, <<16, 17>>,
       <<17, 18>>, <<18, 19>>, <<19, 20>>, <<20, 21>>, <<21, 22>>, <<22, 23>>,
       <<23, 24>>, <<24, 25>>, <<25, 26>>, <<16, 27>>, <<18, 29>>, <<20, 31>>,
       <<22, 33>>, <<24, 35>>, <<26, 37>>, <<27, 28>>, <<28, 29>>, <<29, 30>>,
       <<30, 31>>, <<31, 32>>, <<32, 33>>, <<33, 34>>, <<34, 35>>, <<35, 36>>,
       <<36, 37>>, <<28, 38>>, <<30, 40>>, <<32, 42>>, <<34, 44>>, <<36, 46>>,
       <<38, 39>>, <<39, 40>>, <<40, 41>>, <<41, 42>>, <<42, 43>>, <<43, 44>>,
       <<44, 45>>, <<45, 45>>, <<39, 47>>, <<41, 49>>, <<43, 51>>, <<45, 53>>,
       <<47, 48>>, <<48, 49>>, <<49, 50>>, <<50, 51>>, <<51, 52>>, <<52, 53>> >>

\* Board::new, the intersections array; entry i+1 is Intersection i
BoardIntersections ==
    << [paths |-> <<0, 6>>, tiles |-> <<0>>],
       [paths |-> <<0, 1>>, tiles |-> <<0>>],
       [paths |-> <<1, 2, 7>>, tiles |-> <<0, 1>>],
       [paths |-> <<2, 3>>, tiles |-> <<1>>],
       [paths |-> <<3, 4, 8>>, tiles |-> <<1, 2>>],
       [paths |-> <<4, 5>>, tiles |-> <<2>>],
       [paths |-> <<5, 9>>, tiles |-> <<2>>],
       [paths |-> <<10, 18>>, tiles |-> <<3>>],
       [paths |-> <<10, 6, 11>>, tiles |-> <<3, 0>>],
       [paths |-> <<11, 12, 19>>, tiles |-> <<3, 4>>],
       [paths |-> <<7, 12, 13>>, tiles |-> <<0, 1, 4>>],
       [paths |-> <<13, 14, 20>>, tiles |-> <<1, 4, 5>>],
       [paths |-> <<8, 14, 15>>, tiles |-> <<1, 2, 5>>],
       [paths |-> <<15, 16, 21>>, tiles |-> <<2, 5, 6>>],
       [paths |-> <<9, 16, 17>>, tiles |-> <<2, 6>>],
       [paths |-> <<17, 22>>, tiles |-> <<6>>],
       [paths |-> <<23, 33>>, tiles |-> <<7>>],
       [paths |-> <<18, 23, 24>>, tiles |-> <<3, 7>>],
       [paths |-> <<24, 25, 34>>, tiles |-> <<3, 7, 8>>],
       [paths |-> <<19, 25, 26>>, tiles |-> <<3, 4, 8>>],
       [paths |-> <<26, 27, 35>>, tiles |-> <<4, 8, 9>>],
       [paths |-> <<20, 27, 28>>, tiles |-> <<4, 5, 9>>],
       [paths |-> <<28, 29, 36>>, tiles |-> <<5, 9, 10>>],
       [paths |-> <<21, 29, 30>>, tiles |-> <<5, 6, 10>>],
       [paths |-> <<30, 31, 37>>, tiles |-> <<6, 10, 11>>],
       [paths |-> <<22, 31, 32>>, tiles |-> <<6, 11>>],
       [paths |-> <<32, 38>>, tiles |-> <<11>>],
       [paths |-> <<33, 39>>, tiles |-> <<7>>],
       [paths |-> <<39, 40, 49>>, tiles |-> <<7, 12>>],
       [paths |-> <<34, 40, 41>>, tiles |-> <<7, 8, 12>>],
       [paths |-> <<41, 42, 50>>, tiles |-> <<8, 12, 13>>],
       [paths |-> <<35, 42, 43>>, tiles |-> <<8, 9, 13>>],
       [paths |-> <<43, 44, 51>>, tiles |-> <<9, 13, 14>>],
       [paths |-> <<36, 44, 45>>, tiles |-> <<9, 10, 14>>],
       [paths |-> <<45, 46, 52>>, tiles |-> <<10, 14, 15>>],
       [paths |-> <<37, 46, 47>>, tiles |-> <<10, 11, 15>>],
       [paths |-> <<47, 48, 53>>, tiles |-> <<11, 15>>],
       [paths |-> <<38, 48>>, tiles |-> <<11>>],
       [paths |-> <<49, 54>>, tiles |-> <<12>>],
       [paths |-> <<54, 55, 62>>, tiles |-> <<12, 16>>],
       [paths |-> <<50, 55, 56>>, tiles |-> <<12, 13, 16>>],
       [paths |-> <<56, 57, 63>>, tiles |-> <<13, 16, 17>>],
       [paths |-> <<51, 57, 58>>, tiles |-> <<13, 14, 17>>],
       [paths |-> <<58, 59, 64>>, tiles |-> <<14, 17, 18>>],
       [paths |-> <<52, 59, 60>>, tiles |-> <<14, 15, 18>>],
       [paths |-> <<60, 61, 65>>, tiles |-> <<15, 18>>],
       [paths |-> <<53, 61>>, tiles |-> <<15>>],
       [paths |-> <<62, 66>>, tiles |-> <<16>>],
       [paths |-> <<66, 67>>, tiles |-> <<16>>],
       [paths |-> <<63, 67, 68>>, tiles |-> <<16, 17>>],
       [paths |-> <<68, 69>>, tiles |-> <<17>>],
       [paths |-> <<64, 69, 70>>, tiles |-> <<17, 18>>],
       [paths |-> <<70, 71>>, tiles |-> <<18>>],
       [paths |-> <<65, 71>>, tiles |-> <<18>>] >>

\* board.paths[PathId(i)] as a pair <<a, b>> of intersection ids
paths == [i \in 0 .. (PATHS - 1) |-> BoardPaths[i + 1]]

\* a table whose path ids are counted from 1
intersections_one_based ==
    [i \in 0 .. (INTERSECTIONS - 1) |->
        [ paths |-> [k \in DOMAIN BoardIntersections[i + 1].paths |->
                        BoardIntersections[i + 1].paths[k] + 1],
          tiles |-> BoardIntersections[i + 1].tiles ]]

\* board.intersections[IntersectionId(i)]
intersections == [i \in 0 .. (INTERSECTIONS - 1) |-> BoardIntersections[i + 1]]

----------------------------------------------------------------------------
(* Values used to build states *)

Panic == [tag |-> "Panic"]
Ok(v) == [tag |-> "Ok", val |-> v]

Road(id, player) == [id |-> id, player |-> player]
Building(iid, kind, player) == [intersection_id |-> iid, kind |-> kind, player |-> player]
Tile(dice, kind) == [dice |-> dice, kind |-> kind]
ResourceCount(g, w, b, l, o) == [grain |-> g, wool |-> w, brick |-> b, lumber |-> l, ore |-> o]

\* the 19 tiles of tests::get_board
SampleTiles ==
    << Tile(10, "Ore"), Tile(2, "Wool"), Tile(9, "Lumber"), Tile(12, "Grain"),
       Tile(6, "Brick"), Tile(4, "Wool"), Tile(10, "Brick"), Tile(9, "Grain"),
       Tile(11, "Lumber"), Tile(0, "Nothing"), Tile(3, "Lumber"), Tile(8, "Ore"),
       Tile(8, "Lumber"), Tile(3, "Ore"), Tile(4, "Grain"), Tile(5, "Wool"),
       Tile(5, "Brick"), Tile(6, "Grain"), Tile(11, "Wool") >>

\* the resource lines of tests::test_parse_resources
SampleResources ==
    [ red   |-> ResourceCount(6, 7, 8, 9, 10),
      blue  |-> ResourceCount(11, 12, 13, 14, 15),
      white |-> ResourceCount(1, 2, 3, 4, 5) ]

MkGame(buildings, roads, robber, resources) ==
    [ board |-> [tiles |-> SampleTiles],
      state |-> [buildings |-> buildings, roads |-> roads,
                 robber |-> robber, resources |-> resources] ]

\* buildings of the sample board of the tests in moves/possible_moves.rs
SampleBuildings ==
    << Building(10, "Settlement", "Red"), Building(13, "Settlement", "Blue"),
       Building(19, "Settlement", "White"), Building(29, "Settlement", "Red"),
       Building(35, "Settlement", "White"), Building(40, "Settlement", "Red"),
       Building(44, "Settlement", "Red") >>

\* roads of the board of tests::test_longest_road
SampleRoadsLongest ==
    << Road(4, "White"), Road(5, "White"), Road(9, "White"), Road(13, "Red"),
       Road(15, "Blue"), Road(16, "White"), Road(21, "White"), Road(25, "White"),
       Road(30, "White"), Road(37, "White"), Road(41, "Red"), Road(52, "Blue"),
       Road(56, "Blue") >>

\* roads of the board of tests::test_possible_possible_road_paths and
\* tests::test_possible_building_intersections
SampleRoadsMoves ==
    << Road(4, "White"), Road(5, "White"), Road(9, "White"), Road(13, "Red"),
       Road(15, "Blue"), Road(16, "White"), Road(21, "White"), Road(25, "White"),
       Road(30, "White"), Road(37, "White"), Road(41, "Red"), Road(47, "White"),
       Road(52, "Blue"), Road(53, "White"), Road(56, "Blue") >>

SampleGameLongest == MkGame(SampleBuildings, SampleRoadsLongest, 7, SampleResources)
SampleGameMoves == MkGame(SampleBuildings, SampleRoadsMoves, 7, SampleResources)

----------------------------------------------------------------------------
(* moves/possible_moves.rs *)

\* graph.entry(k).or_insert_with(Vec::new).push(v)
EntryPush(graph, k, v) ==
    IF k \in DOMAIN graph
        THEN [graph EXCEPT ![k] = Append(@, v)]
        ELSE graph @@ (k :> <<v>>)

RECURSIVE road_graph_from(_, _, _, _)
\* the loop of road_graph over state.roads[i ..]
road_graph_from(self, player, i, graph) ==
    IF i > Len(self.state.roads) THEN graph
    ELSE LET road == self.state.roads[i]
             a == paths[road.id][1]
             b == paths[road.id][2]
         IN IF road.player = player
                THEN road_graph_from(self, player, i + 1,
                                     EntryPush(EntryPush(graph, a, b), b, a))
                ELSE road_graph_from(self, player, i + 1, graph)

\* Game::road_graph: intersection id -> Vec of neighbours over the player's roads
road_graph(self, player) == road_graph_from(self, player, 1, <<>>)

RECURSIVE dfs(_, _, _, _)
RECURSIVE dfs_loop(_, _, _, _, _, _, _)

\* the for loop of dfs without its else-if branch: a child that is not
\* taller than max1 never becomes max2
dfs_loop_tallest_first(nodes, i, graph, visited, longest, max1, max2) ==
    IF i > Len(nodes) THEN [max1 |-> max1, max2 |-> max2, visited |-> visited]
    ELSE LET r == dfs(nodes[i], graph, visited, longest)
             height == r.height
         IN IF max1 < height
                THEN dfs_loop(nodes, i + 1, graph, r.visited, longest, height, max1)
                ELSE dfs_loop(nodes, i + 1, graph, r.visited, longest, max1, max2)

\* the for loop of dfs over graph[node][i ..], threading visited, max1, max2
dfs_loop(nodes, i, graph, visited, longest, max1, max2) ==
    IF i > Len(nodes) THEN [max1 |-> max1, max2 |-> max2, visited |-> visited]
    ELSE LET r == dfs(nodes[i], graph, visited, longest)
             height == r.height
         IN IF max1 < height
                THEN dfs_loop(nodes, i + 1, graph, r.visited, longest, height, max1)
                ELSE IF max2 < height
                    THEN dfs_loop(nodes, i + 1, graph, r.visited, longest, max1, height)
                    ELSE dfs_loop(nodes, i + 1, graph, r.visited, longest, max1, max2)

\* Game::dfs: (height, longest) and the visited set it leaves behind
dfs(node, graph, visited, longest) ==
    IF node \in visited
        THEN [height |-> 0, longest |-> 0, visited |-> visited]
        ELSE LET l == dfs_loop(graph[node], 1, graph, visited \cup {node}, longest, 0, 0)
             IN [ height  |-> l.max1 + 1,
                  longest |-> IF l.max1 + l.max2 > longest THEN l.max1 + l.max2 ELSE longest,
                  visited |-> l.visited ]

\* a longest_road that counts the intersections on the road instead of its edges
longest_road_vertices(self, player) ==
    LET graph == road_graph(self, player)
    IN IF 6 \notin DOMAIN graph THEN Panic
       ELSE Ok(dfs(6, graph, {}, 0).longest + 1)

\* Game::longest_road; graph[&6] unwinds when the player has no road at 6
longest_road(self, player) ==
    LET graph == road_graph(self, player)
    IN IF 6 \notin DOMAIN graph THEN Panic
       ELSE Ok(dfs(6, graph, {}, 0).longest)

RECURSIVE too_close_from(_, _, _)
\* the loop of too_close_intersections over state.buildings[i ..]
too_close_from(self, i, acc) ==
    IF i > Len(self.state.buildings) THEN acc
    ELSE LET ps == intersections[self.state.buildings[i].intersection_id].paths
         IN too_close_from(self, i + 1,
                acc \cup UNION { {paths[ps[k]][1], paths[ps[k]][2]} : k \in DOMAIN ps })

\* a too-close set that holds the built intersections but not their neighbours
too_close_built_only(self) ==
    { self.state.buildings[i].intersection_id : i \in DOMAIN self.state.buildings }

\* Game::too_close_intersections
too_close_intersections(self) == too_close_from(self, 1, {})

RECURSIVE possible_building_from(_, _, _, _, _)
\* the loop of possible_building_intersections over the player's roads
possible_building_from(self, player, too_close, i, acc) ==
    IF i > Len(self.state.roads) THEN acc
    ELSE LET road == self.state.roads[i]
             a == paths[road.id][1]
             b == paths[road.id][2]
             acc1 == IF a \notin too_close THEN acc \cup {a} ELSE acc
             acc2 == IF b \notin too_close THEN acc1 \cup {b} ELSE acc1
         IN IF road.player = player
                THEN possible_building_from(self, player, too_close, i + 1, acc2)
                ELSE possible_building_from(self, player, too_close, i + 1, acc)

\* building candidates taken from the first endpoint of each owned road only
possible_building_first_endpoints(self, player) ==
    { paths[self.state.roads[i].id][1] :
        i \in { j \in DOMAIN self.state.roads : self.state.roads[j].player = player } }
    \ too_close_intersections(self)

\* Game::possible_building_intersections
possible_building_intersections(self, player) ==
    possible_building_from(self, player, too_close_intersections(self), 1, {})

\* road candidates at every frontier vertex, the road leading there included
possible_road_paths_any_direction(self, player) ==
    LET graph == road_graph(self, player)
        leaf_possible == { key \in DOMAIN graph : Len(graph[key]) = 1 }
    IN { paths[i] : i \in { j \in DOMAIN paths :
             paths[j][1] \in leaf_possible \/ paths[j][2] \in leaf_possible } }

\* Game::possible_road_paths: the set of Path values (pairs of intersection ids)
possible_road_paths(self, player) ==
    LET graph == road_graph(self, player)
        leaf_possible == { key \in DOMAIN graph : Len(graph[key]) = 1 }
        leaf_already_made == { graph[key][1] : key \in leaf_possible }
    IN { paths[i] : i \in { j \in DOMAIN paths :
             \/ paths[j][1] \in leaf_possible /\ paths[j][2] \notin leaf_already_made
             \/ paths[j][2] \in leaf_possible /\ paths[j][1] \notin leaf_already_made } }

----------------------------------------------------------------------------
(* game/resources.rs *)

Buys == {"Road", "Settlement", "City"}

ROAD_COST == ResourceCount(0, 0, 1, 1, 0)
SETTLEMENT_COST == ResourceCount(1, 1, 1, 1, 0)
CITY_COST == ResourceCount(3, 0, 0, 0, 2)

\* the (cost, buy) pairs zipped in possible_buys_dfs, in iteration order
CostBuys ==
    << [cost |-> ROAD_COST, buy |-> "Road"],
       [cost |-> SETTLEMENT_COST, buy |-> "Settlement"],
       [cost |-> CITY_COST, buy |-> "City"] >>

\* the result of a signed type one bit narrower, wrapped into -64 .. 63
WrapI7(x) == ((x + 64) % 128) - 64

\* an i8 result as a build without overflow checks computes it, wrapped
\* into -128 .. 127
WrapI8(x) == ((x + 128) % 256) - 128

\* impl Sub for ResourceCount
Sub(self, rhs) ==
    [ grain  |-> WrapI8(self.grain - rhs.grain),
      wool   |-> WrapI8(self.wool - rhs.wool),
      brick  |-> WrapI8(self.brick - rhs.brick),
      lumber |-> WrapI8(self.lumber - rhs.lumber),
      ore    |-> WrapI8(self.ore - rhs.ore) ]

\* some field of self - rhs lies outside the range of i8: a build with
\* overflow checks unwinds at that subtraction, a build without them wraps
SubOverflows(self, rhs) ==
    \E f \in DOMAIN self : self[f] - rhs[f] \notin -128 .. 127

\* the outcomes of self - rhs over the builds of the program
sub_outcomes(self, rhs) ==
    {Ok(Sub(self, rhs))} \cup (IF SubOverflows(self, rhs) THEN {Panic} ELSE {})

\* a check that asks every field to stay above zero after a deduction
is_strictly_positive(self) ==
    self.grain > 0 /\ self.wool > 0 /\ self.brick > 0 /\ self.lumber > 0 /\ self.ore > 0

\* a check that leaves the last field out
is_positive_without_ore(self) ==
    self.grain >= 0 /\ self.wool >= 0 /\ self.brick >= 0 /\ self.lumber >= 0

\* ResourceCount::is_positive
is_positive(self) ==
    self.grain >= 0 /\ self.wool >= 0 /\ self.brick >= 0 /\ self.lumber >= 0 /\ self.ore >= 0

RECURSIVE possible_buys_dfs(_, _)
\* ResourceCount::possible_buys_dfs: the contents of buys when the call
\* returns. Each (cost, buy) pair whose deduction leaves no field negative
\* inserts its buy and recurses on the reduced stock with the same set
possible_buys_dfs(resource_count, buys) ==
    buys \cup UNION {
        LET sub_count == Sub(resource_count, CostBuys[k].cost)
        IN IF is_positive(sub_count)
               THEN possible_buys_dfs(sub_count, {CostBuys[k].buy})
               ELSE {} : k \in DOMAIN CostBuys }

\* ResourceCount::possible_buys
possible_buys(self) == possible_buys_dfs(self, {})

\* the outcomes of self.possible_buys() over the builds of the program: the
\* subtractions of the first call are the only ones that can leave the
\* range of i8, since every deeper call works on a stock without a negative
\* field
possible_buys_outcomes(self) ==
    {Ok(possible_buys(self))}
        \cup (IF \E k \in DOMAIN CostBuys : SubOverflows(self, CostBuys[k].cost)
                 THEN {Panic} ELSE {})

----------------------------------------------------------------------------
(* Strings: Len, SubSeq and \o act on a String as on a sequence of chars *)

CharAt(s, i) == SubSeq(s, i, i)

\* `let x = e; body`: the value of body with x bound to the value of e
Bind(e, body(_)) == CHOOSE r \in { body(x) : x \in {e} } : TRUE

\* the elements of a finite set of integers as an ascending sequence
Ascending(S) ==
    Bind(S, LAMBDA T :
        [k \in 1 .. Cardinality(T) |->
            CHOOSE x \in T : Cardinality({ y \in T : y < x }) = k - 1])

\* str::lines: the pieces between "\n", without a final empty piece
Lines(str) ==
    Bind(str, LAMBDA s :
    Bind(Ascending({ i \in 1 .. Len(s) : CharAt(s, i) = "\n" }), LAMBDA nls :
        LET cnt == Len(nls)
            piece(k) == SubSeq(s, IF k = 1 THEN 1 ELSE nls[k - 1] + 1,
                                  IF k = cnt + 1 THEN Len(s) ELSE nls[k] - 1)
        IN IF piece(cnt + 1) = ""
               THEN [k \in 1 .. cnt |-> piece(k)]
               ELSE [k \in 1 .. (cnt + 1) |-> piece(k)]))

IsWhitespace(c) == c \in {" ", "\t", "\n", "\r"}

\* str::trim_end: the text up to its last char that is not white space
trim_end(str) ==
    Bind(str, LAMBDA s :
    Bind({ k \in 1 .. Len(s) : ~IsWhitespace(CharAt(s, k)) }, LAMBDA keep :
        IF keep = {} THEN ""
        ELSE SubSeq(s, 1, CHOOSE k \in keep : \A j \in keep : j <= k)))

\* a replacen that replaces the last occurrence of pat
replacen_last(str, pat, to) ==
    Bind(str, LAMBDA s :
    Bind({ i \in 1 .. (Len(s) - Len(pat) + 1) : SubSeq(s, i, i + Len(pat) - 1) = pat },
         LAMBDA found :
        IF found = {} THEN s
        ELSE Bind(CHOOSE x \in found : \A y \in found : y <= x, LAMBDA i :
                 SubSeq(s, 1, i - 1) \o to \o SubSeq(s, i + Len(pat), Len(s)))))

\* str::replacen(pat, to, 1): the first occurrence of pat in the whole text
replacen(str, pat, to) ==
    Bind(str, LAMBDA s :
    Bind({ i \in 1 .. (Len(s) - Len(pat) + 1) : SubSeq(s, i, i + Len(pat) - 1) = pat },
         LAMBDA found :
        IF found = {} THEN s
        ELSE Bind(CHOOSE x \in found : \A y \in found : x <= y, LAMBDA i :
                 SubSeq(s, 1, i - 1) \o to \o SubSeq(s, i + Len(pat), Len(s)))))

\* str::split_whitespace: the maximal runs of chars that are not white space
split_whitespace(str) ==
    Bind(str, LAMBDA s :
        LET word(k) == k >= 1 /\ k <= Len(s) /\ ~IsWhitespace(CharAt(s, k))
            last(i) == CHOOSE j \in i .. Len(s) :
                           (\A k \in i .. j : word(k)) /\ ~word(j + 1)
        IN Bind(Ascending({ i \in 1 .. Len(s) : word(i) /\ ~word(i - 1) }), LAMBDA starts :
               [k \in DOMAIN starts |-> SubSeq(s, starts[k], last(starts[k]))]))

Digits == "0123456789"
IsDigit(c) == c \in { CharAt(Digits, k) : k \in 1 .. 10 }
DigitValue(c) == (CHOOSE k \in 1 .. 10 : CharAt(Digits, k) = c) - 1

RECURSIVE DecimalValue(_, _)
\* the value of the first n chars of a string of decimal digits
DecimalValue(s, n) ==
    IF n = 0 THEN 0
    ELSE 10 * DecimalValue(s, n - 1) + DigitValue(CharAt(s, n))

\* the syntax shared by u8::from_str and usize::from_str:
\* an optional '+', then one or more decimal digits
parse_digits(str) ==
    Bind(IF Len(str) > 0 /\ CharAt(str, 1) = "+" THEN SubSeq(str, 2, Len(str)) ELSE str,
         LAMBDA body :
        IF Len(body) > 0 /\ (\A k \in 1 .. Len(body) : IsDigit(CharAt(body, k)))
            THEN Ok(DecimalValue(body, Len(body)))
            ELSE [tag |-> "Err"])

U8_MAX == 255

\* str::parse::<u8>: Err on bad syntax and on overflow
parse_u8(s) ==
    Bind(parse_digits(s), LAMBDA r :
        IF r.tag = "Ok" /\ r.val > U8_MAX THEN [tag |-> "Err"] ELSE r)

\* str::parse::<usize>; the tokens of the model stay far below usize::MAX
parse_usize(s) == parse_digits(s)

RECURSIVE format_decimal(_)
\* the decimal digits of a natural number
format_decimal(n) ==
    IF n < 10 THEN CharAt(Digits, n + 1)
    ELSE format_decimal(n \div 10) \o CharAt(Digits, (n % 10) + 1)

\* format!("{:02}", n)
format_02(n) == IF n < 10 THEN "0" \o format_decimal(n) ELSE format_decimal(n)

----------------------------------------------------------------------------
(* game/encoding.rs *)

\* const TEMPLATE
TEMPLATE ==
    "\n"
    \o "          BB * BB * BB * BB * BB * BB * BB\n"
    \o "          *   TTTT  *   TTTT  *   TTTT  *\n"
    \o "     BB * BB * BB * BB * BB * BB * BB * BB * BB\n"
    \o "     *   TTTT  *   TTTT  *   TTTT  *   TTTT  *\n"
    \o "BB * BB * BB * BB * BB * BB * BB * BB * BB * BB * BB\n"
    \o "*   TTTT  *   TTTT  *   TTTT  *   TTTT  *   TTTT  *\n"
    \o "BB * BB * BB * BB * BB * BB * BB * BB * BB * BB * BB\n"
    \o "     *   TTTT  *   TTTT  *   TTTT  *   TTTT  *\n"
    \o "     BB * BB * BB * BB * BB * BB * BB * BB * BB\n"
    \o "          *   TTTT  *   TTTT  *   TTTT  *\n"
    \o "          BB * BB * BB * BB * BB * BB * BB"

\* impl From<TileKind> for char
TileKindToChar(kind) ==
    CASE kind = "Grain" -> "G" [] kind = "Wool" -> "W" [] kind = "Brick" -> "B"
      [] kind = "Lumber" -> "L" [] kind = "Ore" -> "O" [] kind = "Nothing" -> "N"

\* impl TryFrom<char> for TileKind
TileKindTryFrom(c) ==
    CASE c = "G" -> Ok("Grain") [] c = "W" -> Ok("Wool") [] c = "B" -> Ok("Brick")
      [] c = "L" -> Ok("Lumber") [] c = "O" -> Ok("Ore") [] c = "N" -> Ok("Nothing")
      [] OTHER -> [tag |-> "Err"]

\* impl TryFrom<char> for BuildingKind
BuildingKindTryFrom(c) ==
    CASE c = "S" -> Ok("Settlement") [] c = "C" -> Ok("City") [] OTHER -> [tag |-> "Err"]

\* impl From<Player> for char
PlayerToChar(player) ==
    CASE player = "Red" -> "R" [] player = "Blue" -> "B" [] player = "White" -> "W"

\* impl TryFrom<char> for Player (game/board.rs)
PlayerTryFrom(c) ==
    CASE c = "R" -> Ok("Red") [] c = "B" -> Ok("Blue") [] c = "W" -> Ok("White")
      [] OTHER -> [tag |-> "Err"]

\* TEMPLATE.lines(), each line trimmed at its end
TemplateLines == [i \in DOMAIN Lines(TEMPLATE) |-> trim_end(Lines(TEMPLATE)[i])]

\* per template line, the 0-based columns where a "BB" slot starts
building_coordinates ==
    [i \in DOMAIN TemplateLines |->
        Ascending({ c \in 0 .. (Len(TemplateLines[i]) - 1) :
            /\ CharAt(TemplateLines[i], c + 1) = "B"
            /\ c + 2 <= Len(TemplateLines[i])
            /\ CharAt(TemplateLines[i], c + 2) = "B" })]

\* per template line, the 0-based columns where a "TTTT" slot starts
tile_coordinates ==
    [i \in DOMAIN TemplateLines |->
        Ascending({ c \in 0 .. (Len(TemplateLines[i]) - 1) :
            /\ c + 4 <= Len(TemplateLines[i])
            /\ SubSeq(TemplateLines[i], c + 1, c + 4) = "TTTT" })]

\* per template line, the 0-based columns holding a '*' slot
road_coordinates ==
    [i \in DOMAIN TemplateLines |->
        Ascending({ c \in 0 .. (Len(TemplateLines[i]) - 1) :
            CharAt(TemplateLines[i], c + 1) = "*" })]

RECURSIVE SumLens(_, _)
SumLens(coords, i) == IF i > Len(coords) THEN 0 ELSE Len(coords[i]) + SumLens(coords, i + 1)

\* the three assert_eq! on the slot counts found in TEMPLATE
SlotCountsOk ==
    /\ SumLens(building_coordinates, 1) = INTERSECTIONS
    /\ SumLens(tile_coordinates, 1) = TILES
    /\ SumLens(road_coordinates, 1) = PATHS

RECURSIVE FlattenSlots(_, _)
\* the slots of template lines i .. in scan order, each [line, col]
FlattenSlots(coords, i) ==
    IF i > Len(coords) THEN <<>>
    ELSE [k \in 1 .. Len(coords[i]) |-> [line |-> i, col |-> coords[i][k]]]
         \o FlattenSlots(coords, i + 1)

\* the order in which the nested loops of try_from visit the slots;
\* the n-th slot visited gets id n - 1
building_slots == FlattenSlots(building_coordinates, 1)
road_slots == FlattenSlots(road_coordinates, 1)
tile_slots == FlattenSlots(tile_coordinates, 1)

\* a loop that stops at its first failing slot: that failure, or the
\* values pushed by the slots that pushed one, in slot order
FirstFailureOrPushed(outcomes) ==
    Bind(outcomes, LAMBDA cells :
    Bind({ n \in DOMAIN cells : cells[n].tag \in {"Err", "Panic"} }, LAMBDA stops :
        IF stops # {}
            THEN [tag |-> cells[CHOOSE n \in stops : \A m \in stops : n <= m].tag]
            ELSE Bind(SelectSeq(cells, LAMBDA c : c.tag = "Ok"), LAMBDA pushed :
                     Ok([k \in DOMAIN pushed |-> pushed[k].val]))))

\* the building loop of try_from. lines().nth(i).unwrap() unwinds on a
\* missing line and chars[coordinate + 1] on a short one
decode_buildings(board_lines) ==
    Bind(board_lines, LAMBDA lines :
        LET cell(n) ==
                IF building_slots[n].line > Len(lines) THEN Panic
                ELSE IF building_slots[n].col + 2 > Len(lines[building_slots[n].line])
                    THEN Panic
                ELSE LET first_char ==
                             CharAt(lines[building_slots[n].line], building_slots[n].col + 1)
                         second_char ==
                             CharAt(lines[building_slots[n].line], building_slots[n].col + 2)
                     IN IF first_char = "o" THEN [tag |-> "Skip"]
                        ELSE IF BuildingKindTryFrom(second_char).tag = "Err" THEN [tag |-> "Err"]
                        ELSE IF PlayerTryFrom(first_char).tag = "Err" THEN [tag |-> "Err"]
                        ELSE Ok(Building(n - 1, BuildingKindTryFrom(second_char).val,
                                         PlayerTryFrom(first_char).val))
        IN FirstFailureOrPushed([n \in DOMAIN building_slots |-> cell(n)]))

\* the road loop of try_from
decode_roads(board_lines) ==
    Bind(board_lines, LAMBDA lines :
        LET cell(n) ==
                IF road_slots[n].line > Len(lines) THEN Panic
                ELSE IF road_slots[n].col + 1 > Len(lines[road_slots[n].line]) THEN Panic
                ELSE LET first_char == CharAt(lines[road_slots[n].line], road_slots[n].col + 1)
                     IN IF first_char = "." THEN [tag |-> "Skip"]
                        ELSE IF PlayerTryFrom(first_char).tag = "Err" THEN [tag |-> "Err"]
                        ELSE Ok(Road(n - 1, PlayerTryFrom(first_char).val))
        IN FirstFailureOrPushed([n \in DOMAIN road_slots |-> cell(n)]))

\* the tile loop keeping the first slot that holds '!'
decode_tiles_first_robber(board_lines) ==
    Bind(board_lines, LAMBDA lines :
        LET chars(n, k) == CharAt(lines[tile_slots[n].line], tile_slots[n].col + k)
            cell(n) ==
                IF tile_slots[n].line > Len(lines) THEN Panic
                ELSE IF tile_slots[n].col + 4 > Len(lines[tile_slots[n].line]) THEN Panic
                ELSE IF TileKindTryFrom(chars(n, 3)).tag = "Err" THEN [tag |-> "Err"]
                ELSE Bind(parse_u8(chars(n, 1) \o chars(n, 2)), LAMBDA dice :
                         IF dice.tag = "Err" THEN Panic
                         ELSE Ok(Tile(dice.val, TileKindTryFrom(chars(n, 3)).val)))
        IN Bind(FirstFailureOrPushed([n \in DOMAIN tile_slots |-> cell(n)]), LAMBDA tiles :
               IF tiles.tag # "Ok" THEN tiles
               ELSE Bind({ n \in DOMAIN tile_slots : chars(n, 4) = "!" }, LAMBDA robbers :
                        Ok([ tiles |-> tiles.val,
                             robber |-> IF robbers = {} THEN <<>>
                                        ELSE <<(CHOOSE n \in robbers :
                                                   \A m \in robbers : n <= m) - 1>> ]))))

\* the tile loop of try_from: the tiles and the robber, Some(id) as <<id>>
\* (the last slot holding '!') or None as <<>>
decode_tiles(board_lines) ==
    Bind(board_lines, LAMBDA lines :
        LET chars(n, k) == CharAt(lines[tile_slots[n].line], tile_slots[n].col + k)
            cell(n) ==
                IF tile_slots[n].line > Len(lines) THEN Panic
                ELSE IF tile_slots[n].col + 4 > Len(lines[tile_slots[n].line]) THEN Panic
                ELSE IF TileKindTryFrom(chars(n, 3)).tag = "Err" THEN [tag |-> "Err"]
                ELSE Bind(parse_u8(chars(n, 1) \o chars(n, 2)), LAMBDA dice :
                         IF dice.tag = "Err" THEN Panic
                         ELSE Ok(Tile(dice.val, TileKindTryFrom(chars(n, 3)).val)))
        IN Bind(FirstFailureOrPushed([n \in DOMAIN tile_slots |-> cell(n)]), LAMBDA tiles :
               IF tiles.tag # "Ok" THEN tiles
               ELSE Bind({ n \in DOMAIN tile_slots : chars(n, 4) = "!" }, LAMBDA robbers :
                        Ok([ tiles |-> tiles.val,
                             robber |-> IF robbers = {} THEN <<>>
                                        ELSE <<(CHOOSE n \in robbers :
                                                   \A m \in robbers : m <= n) - 1>> ]))))

\* p.starts_with("W") || p.starts_with("B") || p.starts_with("R")
StartsWithPlayerLetter(p) == Len(p) > 0 /\ CharAt(p, 1) \in {"W", "B", "R"}

\* line.split_whitespace().skip(1).map(|s| s.parse::<usize>().unwrap()).collect()
parse_counts(line) ==
    Bind(split_whitespace(line), LAMBDA tokens :
    Bind([k \in 1 .. (Len(tokens) - 1) |-> parse_usize(tokens[k + 1])], LAMBDA nums :
        IF \E k \in DOMAIN nums : nums[k].tag = "Err" THEN Panic
        ELSE Ok([k \in DOMAIN nums |-> nums[k].val])))

\* the resource part of try_from: the lines that start with W, B or R, taken
\* by position 0, 1, 2 for White, Red, Blue; a missing line, a token that is
\* no number and a missing count all unwind
decode_resources(board_lines) ==
    Bind(SelectSeq(board_lines, StartsWithPlayerLetter), LAMBDA resource_lines :
        IF Len(resource_lines) < 3 THEN Panic
        ELSE Bind(<<parse_counts(resource_lines[1]), parse_counts(resource_lines[2]),
                    parse_counts(resource_lines[3])>>, LAMBDA counts :
                 LET white == counts[1]
                     red == counts[2]
                     blue == counts[3]
                     count(v) == ResourceCount(v[1], v[2], v[3], v[4], v[5])
                 IN IF white.tag # "Ok" \/ red.tag # "Ok" \/ blue.tag # "Ok" THEN Panic
                    ELSE IF Len(red.val) < 5 \/ Len(blue.val) < 5 \/ Len(white.val) < 5
                        THEN Panic
                    ELSE Ok([red |-> count(red.val), blue |-> count(blue.val),
                             white |-> count(white.val)])))

\* impl TryFrom<String> for Game: Ok(game), Err or Panic
try_from(board_str) ==
    Bind(Lines(board_str), LAMBDA lines :
    IF ~SlotCountsOk THEN Panic ELSE
    Bind(decode_buildings(lines), LAMBDA buildings :
    IF buildings.tag # "Ok" THEN buildings ELSE
    Bind(decode_roads(lines), LAMBDA roads :
    IF roads.tag # "Ok" THEN roads ELSE
    Bind(decode_tiles(lines), LAMBDA tiles :
    IF tiles.tag # "Ok" THEN tiles ELSE
    Bind(decode_resources(lines), LAMBDA resources :
    IF resources.tag # "Ok" THEN resources
    ELSE IF tiles.val.robber = <<>> THEN Panic
    ELSE Ok([ board |-> [tiles |-> tiles.val.tiles],
              state |-> [ buildings |-> buildings.val, roads |-> roads.val,
                          robber |-> tiles.val.robber[1],
                          resources |-> resources.val ] ]))))))

RECURSIVE replace_each(_, _, _, _, _)
\* output = output.replacen(pat, cells[n], 1) for n = lo .. hi in turn:
\* the first half of the range is applied, then the second half to its result
replace_each(output, pat, cells, lo, hi) ==
    IF lo > hi THEN output
    ELSE IF lo = hi THEN replacen(output, pat, cells[lo])
    ELSE Bind(replace_each(output, pat, cells, lo, (lo + hi) \div 2), LAMBDA first_half :
             replace_each(first_half, pat, cells, ((lo + hi) \div 2) + 1, hi))

\* the HashMap left by inserting every element of a Vec under the value of
\* its field key: a later element replaces an earlier one with the same key
MapOfVec(items, key) ==
    [k \in { items[i][key] : i \in DOMAIN items } |->
        items[CHOOSE i \in DOMAIN items :
                 /\ items[i][key] = k
                 /\ \A j \in DOMAIN items : items[j][key] = k => j <= i]]

\* impl From<Game> for String
from(self) ==
    Bind(MapOfVec(self.state.buildings, "intersection_id"), LAMBDA building_map :
    Bind(MapOfVec(self.state.roads, "id"), LAMBDA road_map :
    Bind([n \in 1 .. Len(self.board.tiles) |->
            format_02(self.board.tiles[n].dice) \o TileKindToChar(self.board.tiles[n].kind)
                \o (IF n - 1 = self.state.robber THEN "!" ELSE " ")], LAMBDA tile_cells :
    Bind([n \in 1 .. INTERSECTIONS |->
            IF (n - 1) \notin DOMAIN building_map THEN "oo"
            ELSE PlayerToChar(building_map[n - 1].player)
                 \o (IF building_map[n - 1].kind = "Settlement" THEN "S" ELSE "C")],
         LAMBDA building_cells :
    Bind([n \in 1 .. PATHS |->
            IF (n - 1) \notin DOMAIN road_map THEN "."
            ELSE PlayerToChar(road_map[n - 1].player)], LAMBDA road_cells :
    Bind(replace_each(TEMPLATE, "TTTT", tile_cells, 1, Len(self.board.tiles)), LAMBDA output1 :
    Bind(replace_each(output1, "BB", building_cells, 1, INTERSECTIONS), LAMBDA output2 :
        replace_each(output2, "*", road_cells, 1, PATHS))))))))

\* the text of tests::test_parse_resources (game/resources.rs)
SampleText ==
    "\n"
    \o "          oo . oo . oo . oo . oo W oo W oo\n"
    \o "          .   10O   .   02W   .   09L   W\n"
    \o "     oo . oo . oo . RS R oo . oo B BS W oo . oo\n"
    \o "     .   12G   .   06B   .   04W   W   10B   .\n"
    \o "oo . oo . oo W WS . oo . oo . oo . oo W oo . oo . oo\n"
    \o ".   09G!  .   11L   .   00N   .   03L   W   08O   .\n"
    \o "oo . oo . RS R oo . oo . oo . oo . oo . WS . oo . oo\n"
    \o "     .   08L   .   03O   .   04G   B   05W   .\n"
    \o "     oo . oo . RS B oo . oo . oo . RS . oo . oo\n"
    \o "          .   05B   .   06G   .   11W   .\n"
    \o "          oo . oo . oo . oo . oo . oo . oo\n"
    \o "   G  W  B  L  O\n"
    \o "W  1  2  3  4  5  \n"
    \o "R  6  7  8  9  10 \n"
    \o "B  11 12 13 14 15"

----------------------------------------------------------------------------
(* States after construction *)

RECURSIVE AscendingRoads(_, _)
\* roads of one player on the path ids S, in ascending id order
AscendingRoads(S, player) ==
    IF S = {} THEN <<>>
    ELSE LET m == CHOOSE x \in S : \A y \in S : x <= y
         IN <<Road(m, player)>> \o AscendingRoads(S \ {m}, player)

\* no search in progress
Idle ==
    [ pc |-> "idle", kind |-> "none", player |-> "White", graph |-> <<>>, arg |-> 0,
      stack |-> <<>>,
      visited |-> {}, entered |-> <<>>, ret |-> [height |-> 0, longest |-> 0],
      start |-> ResourceCount(0, 0, 0, 0, 0), buys |-> {}, result |-> [tag |-> "None"] ]

\* path ids on which a constructed state may carry White roads
InitPaths == {9, 15, 16, 17, 22}

\* path ids and intersection ids the callers place roads and buildings on
PlacePaths == {4, 5, 61}
PlaceSites == {5, 6, 36, 45, 46}

\* the path Red places a road on between codec calls (its slot opens a board line)
CodecPaths == {33}

\* the game of tests::test_parse1 in game/encoding.rs
Parse1Game ==
    MkGame(<< Building(10, "Settlement", "Red"), Building(13, "Settlement", "Blue"),
              Building(19, "Settlement", "White"), Building(35, "Settlement", "White"),
              Building(29, "Settlement", "Red"), Building(40, "Settlement", "Red"),
              Building(44, "Settlement", "Red") >>,
           << Road(13, "Red"), Road(15, "Blue"), Road(37, "White"), Road(41, "Red"),
              Road(56, "Blue"), Road(52, "Blue") >>,
           7,
           [ red   |-> ResourceCount(2, 3, 4, 1, 1),
             blue  |-> ResourceCount(0, 1, 2, 3, 4),
             white |-> ResourceCount(1, 2, 3, 4, 5) ])

RECURSIVE JoinLines(_, _)
\* the lines from the i-th on, separated by '\n'
JoinLines(ls, i) ==
    IF i > Len(ls) THEN ""
    ELSE IF i = Len(ls) THEN ls[i]
    ELSE ls[i] \o "\n" \o JoinLines(ls, i + 1)

SampleLines == Lines(SampleText)

\* the orders in which a caller may write the three resource lines of SampleText
ResourceOrders ==
    { o \in [1 .. 3 -> 14 .. 16] : \A i, j \in 1 .. 3 : o[i] = o[j] => i = j }

\* texts handed to the decoder: SampleText, and the board of SampleText
\* followed directly by its three resource lines in any order
CodecTexts ==
    {SampleText} \cup
    { JoinLines(SubSeq(SampleLines, 1, 12)
                \o <<SampleLines[o[1]], SampleLines[o[2]], SampleLines[o[3]]>>, 1) :
        o \in ResourceOrders }

ZeroStock == ResourceCount(0, 0, 0, 0, 0)

Call(op, arg, out) == [op |-> op, arg |-> arg, out |-> out]

OccupiedPaths(self) == { self.state.roads[i].id : i \in DOMAIN self.state.roads }
OccupiedSites(self) ==
    { self.state.buildings[i].intersection_id : i \in DOMAIN self.state.buildings }

----------------------------------------------------------------------------
(* Operations *)

\* state.roads.push(Road { id, player })
PlaceRoad(player, id) ==
    /\ placed < MaxPlaced
    /\ id \notin OccupiedPaths(game)
    /\ game' = [game EXCEPT !.state.roads = Append(@, Road(id, player))]
    /\ placed' = placed + 1
    /\ calls' = <<>>
    /\ UNCHANGED <<text, stock, search>>

\* state.buildings.push(Building { intersection_id, kind, player })
PlaceBuilding(player, kind, iid) ==
    /\ placed < MaxPlaced
    /\ iid \notin OccupiedSites(game)
    /\ game' = [game EXCEPT !.state.buildings = Append(@, Building(iid, kind, player))]
    /\ placed' = placed + 1
    /\ calls' = <<>>
    /\ UNCHANGED <<text, stock, search>>

\* game.longest_road(player)
LongestRoad(player) ==
    /\ calls' = <<Call("longest_road", player, longest_road(game, player))>>
    /\ UNCHANGED <<game, text, stock, placed, search>>

\* game.possible_road_paths(player)
PossibleRoadPaths(player) ==
    /\ calls' = <<Call("possible_road_paths", player, possible_road_paths(game, player))>>
    /\ UNCHANGED <<game, text, stock, placed, search>>

\* game.possible_building_intersections(player)
PossibleBuildingIntersections(player) ==
    /\ calls' = <<Call("possible_building_intersections", player,
                       possible_building_intersections(game, player))>>
    /\ UNCHANGED <<game, text, stock, placed, search>>

\* game.too_close_intersections()
TooCloseIntersections ==
    /\ calls' = <<Call("too_close_intersections", "none", too_close_intersections(game))>>
    /\ UNCHANGED <<game, text, stock, placed, search>>

\* stock.possible_buys()
PossibleBuys ==
    /\ calls' = <<Call("possible_buys", stock, possible_buys(stock))>>
    /\ UNCHANGED <<game, text, stock, placed, search>>

\* the call log of the codec keeps the previous call next to the new one
LastCall == IF calls = <<>> THEN <<>> ELSE <<calls[Len(calls)]>>

\* let r: Result<Game, _> = text.clone().try_into()
Decode ==
    \E r \in {try_from(text)} :
        /\ calls' = LastCall \o <<Call("try_from", text, r)>>
        /\ game' = IF r.tag = "Ok" THEN r.val ELSE game
        /\ UNCHANGED <<text, stock, placed, search>>

\* text = String::from(game)
Encode ==
    \E output \in {from(game)} :
        /\ text' = output
        /\ calls' = LastCall \o <<Call("from", game, output)>>
        /\ UNCHANGED <<game, stock, placed, search>>

\* stock - cost
Deduct(cost) ==
    /\ placed < MaxSubs
    /\ stock' = Sub(stock, cost)
    /\ placed' = placed + 1
    /\ calls' = <<>>
    /\ UNCHANGED <<game, text, search>>

----------------------------------------------------------------------------
(* Specifications *)

\* road derivations: a Game with White roads on some of InitPaths, or a sample board
Init ==
    /\ \/ \E S \in SUBSET InitPaths :
              game = MkGame(<<>>, AscendingRoads(S, "White"), 0, SampleResources)
       \/ game \in {SampleGameLongest, SampleGameMoves}
    /\ text = ""
    /\ stock = ZeroStock
    /\ calls = <<>>
    /\ placed = 0
    /\ search = Idle

Next ==
    \/ \E p \in Player, id \in PlacePaths : PlaceRoad(p, id)
    \/ \E p \in Player : LongestRoad(p)
    \/ \E p \in Player : PossibleRoadPaths(p)

Spec == Init /\ [][Next]_vars

\* building derivations: the sample boards and the empty board
InitBuild ==
    /\ game \in {SampleGameLongest, SampleGameMoves, MkGame(<<>>, <<>>, 0, SampleResources)}
    /\ text = ""
    /\ stock = ZeroStock
    /\ calls = <<>>
    /\ placed = 0
    /\ search = Idle

NextBuild ==
    \/ \E p \in Player, id \in PlacePaths : PlaceRoad(p, id)
    \/ \E p \in Player, k \in BuildingKind, i \in PlaceSites : PlaceBuilding(p, k, i)
    \/ \E p \in Player : PossibleBuildingIntersections(p)
    \/ TooCloseIntersections

SpecBuild == InitBuild /\ [][NextBuild]_vars

\* purchase derivations: every stock with fields in 0 .. MaxStock
InitBuys ==
    /\ game = MkGame(<<>>, <<>>, 0, SampleResources)
    /\ text = ""
    /\ stock \in [grain : 0 .. MaxStock, wool : 0 .. MaxStock, brick : 0 .. MaxStock,
                  lumber : 0 .. MaxStock, ore : 0 .. MaxStock]
    /\ calls = <<>>
    /\ placed = 0
    /\ search = Idle

NextBuys ==
    \/ \E k \in DOMAIN CostBuys : Deduct(CostBuys[k].cost)
    \/ PossibleBuys

SpecBuys == InitBuys /\ [][NextBuys]_vars

\* the codec: a game built by a test and a text written by a caller
InitCodec ==
    /\ game \in {Parse1Game, SampleGameLongest}
    /\ text \in CodecTexts
    /\ stock = ZeroStock
    /\ calls = <<>>
    /\ placed = 0
    /\ search = Idle

NextCodec ==
    \/ Decode
    \/ Encode
    \/ \E id \in CodecPaths : PlaceRoad("Red", id)

SpecCodec == InitCodec /\ [][NextCodec]_vars
----------------------------------------------------------------------------
(* Texts a caller hands to the decoder *)

\* lines with the characters of one line overwritten by cell from the
\* 0-based column col on
SetCell(lines, line, col, cell) ==
    IF line > Len(lines) THEN lines
    ELSE IF col + Len(cell) > Len(lines[line]) THEN lines
    ELSE [lines EXCEPT ![line] =
             SubSeq(@, 1, col) \o cell \o SubSeq(@, col + Len(cell) + 1, Len(@))]

\* one change a caller makes to the lines of a text
ApplyEdit(lines, e) ==
    CASE e.kind = "cell" -> SetCell(lines, e.slot.line, e.slot.col, e.str)
      [] e.kind = "line" -> IF e.line > Len(lines) THEN lines
                            ELSE [lines EXCEPT ![e.line] = e.str]
      [] e.kind = "keep" -> IF e.n > Len(lines) THEN lines ELSE SubSeq(lines, 1, e.n)
      [] e.kind = "insert" -> IF e.line > Len(lines) THEN lines ELSE
                              SubSeq(lines, 1, e.line - 1) \o <<e.str>>
                              \o SubSeq(lines, e.line, Len(lines))
      [] OTHER -> lines

CellEdit(slot, str) == [kind |-> "cell", slot |-> slot, str |-> str]
LineEdit(line, str) == [kind |-> "line", line |-> line, str |-> str]

\* the changes made to SampleText: legal cells that open a board line with a
\* player letter, cells and resource lines the decoder cannot read, lines
\* left out or cut short, and slots added to the board
InputEdits ==
    << [kind |-> "none"],
       CellEdit(building_slots[17], "WS"),
       CellEdit(road_slots[34], "W"),
       CellEdit(tile_slots[1], "xxO "),
       CellEdit(tile_slots[8], "09G "),
       [kind |-> "keep", n |-> 15],
       LineEdit(16, "B  11 12"),
       LineEdit(14, "W  1  x  3  4  5"),
       [kind |-> "keep", n |-> 8],
       LineEdit(3, SubSeq(SampleLines[3], 1, 20)),
       CellEdit(building_slots[1], "XS"),
       CellEdit(building_slots[1], "RX"),
       CellEdit(building_slots[1], "oX"),
       CellEdit(road_slots[1], "X"),
       CellEdit(tile_slots[2], "02Q "),
       LineEdit(2, SampleLines[2] \o " . oo"),
       [kind |-> "insert", line |-> 13, str |-> "          oo . oo"],
       LineEdit(12, SubSeq(SampleLines[12], 1, Len(SampleLines[12]) - 5)),
       CellEdit(tile_slots[19], "11W!") >>

\* SampleText with up to two of the changes applied
InputTexts ==
    { JoinLines(ApplyEdit(ApplyEdit(SampleLines, InputEdits[i]), InputEdits[j]), 1) :
        i \in DOMAIN InputEdits, j \in DOMAIN InputEdits }

\* the decoder on texts written by a caller
InitDecode ==
    /\ game = Parse1Game
    /\ text \in InputTexts
    /\ stock = ZeroStock
    /\ calls = <<>>
    /\ placed = 0
    /\ search = Idle

NextDecode == Decode

SpecDecode == InitDecode /\ [][NextDecode]_vars

\* games handed to the encoder: the game of tests::test_parse1 with the
\* robber on any tile, its first tile carrying a two-digit dice value or the
\* largest value a u8 holds
EncodeGames ==
    { [Parse1Game EXCEPT !.state.robber = r, !.board.tiles[1].dice = d] :
        r \in 0 .. (TILES - 1), d \in {SampleTiles[1].dice, U8_MAX} }

\* the encoder on games built by a caller, and the decoder on its output
InitEncode ==
    /\ game \in EncodeGames
    /\ text = ""
    /\ stock = ZeroStock
    /\ calls = <<>>
    /\ placed = 0
    /\ search = Idle

NextEncode ==
    \/ Encode
    \/ Decode

SpecEncode == InitEncode /\ [][NextEncode]_vars

\* stock.is_positive()
IsPositive ==
    /\ calls' = <<Call("is_positive", stock, is_positive(stock))>>
    /\ UNCHANGED <<game, text, stock, placed, search>>

NextPositive ==
    \/ \E k \in DOMAIN CostBuys : Deduct(CostBuys[k].cost)
    \/ IsPositive

\* the sign check on every stock with fields in 0 .. MaxStock and on what
\* deductions leave of it
SpecPositive == InitBuys /\ [][NextPositive]_vars

\* path ids of the roads around tile 2 and of the branch that leaves it, on
\* which a constructed state may carry White roads
OrderInitPaths == {4, 8, 15, 16, 17, 22}

\* the two paths at intersection 6, placed by the callers in either order
OrderPlacePaths == {5, 9}

\* longest_road on states whose roads are listed in the order of placement
InitOrder ==
    /\ \E S \in SUBSET OrderInitPaths :
          game = MkGame(<<>>, AscendingRoads(S, "White"), 0, SampleResources)
    /\ text = ""
    /\ stock = ZeroStock
    /\ calls = <<>>
    /\ placed = 0
    /\ search = Idle

NextOrder ==
    \/ \E p \in Player, id \in OrderPlacePaths : PlaceRoad(p, id)
    \/ \E p \in Player : LongestRoad(p)

SpecOrder == InitOrder /\ [][NextOrder]_vars

\* field values at the edges of the range of i8, and values around the costs
EdgeValues == {-128, -127, -126, 127}
CostValues == {-125, 0, 1, 3}

\* stocks with at most one field at an edge of the range of i8
RangeStocks ==
    { s \in [ grain : EdgeValues \cup CostValues, wool : EdgeValues \cup CostValues,
              brick : EdgeValues \cup CostValues, lumber : EdgeValues \cup CostValues,
              ore : EdgeValues \cup CostValues ] :
        Cardinality({ f \in DOMAIN s : s[f] \in EdgeValues }) <= 1 }

\* stock - cost for one of the three fixed costs
SubCost(k) ==
    \E out \in sub_outcomes(stock, CostBuys[k].cost) :
        /\ calls' = <<Call("sub", [self |-> stock, rhs |-> CostBuys[k].cost], out)>>
        /\ UNCHANGED <<game, text, stock, placed, search>>

\* stock.possible_buys() in any build
PossibleBuysAnyBuild ==
    /\ \E out \in possible_buys_outcomes(stock) :
          calls' = <<Call("possible_buys", stock, out)>>
    /\ UNCHANGED <<game, text, stock, placed, search>>

InitRange ==
    /\ game = MkGame(<<>>, <<>>, 0, SampleResources)
    /\ text = ""
    /\ stock \in RangeStocks
    /\ calls = <<>>
    /\ placed = 0
    /\ search = Idle

NextRange ==
    \/ \E k \in DOMAIN CostBuys : SubCost(k)
    \/ PossibleBuysAnyBuild

\* cost deduction over the whole range of i8
SpecRange == InitRange /\ [][NextRange]_vars

----------------------------------------------------------------------------
(* main.rs: the codec of the board text without resource lines *)

\* const TEMPLATE of main.rs; its last line ends with three spaces
MAIN_TEMPLATE ==
    "\n"
    \o "          BB * BB * BB * BB * BB * BB * BB\n"
    \o "          *   TTTT  *   TTTT  *   TTTT  *\n"
    \o "     BB * BB * BB * BB * BB * BB * BB * BB * BB\n"
    \o "     *   TTTT  *   TTTT  *   TTTT  *   TTTT  *\n"
    \o "BB * BB * BB * BB * BB * BB * BB * BB * BB * BB * BB\n"
    \o "*   TTTT  *   TTTT  *   TTTT  *   TTTT  *   TTTT  *\n"
    \o "BB * BB * BB * BB * BB * BB * BB * BB * BB * BB * BB\n"
    \o "     *   TTTT  *   TTTT  *   TTTT  *   TTTT  *\n"
    \o "     BB * BB * BB * BB * BB * BB * BB * BB * BB\n"
    \o "          *   TTTT  *   TTTT  *   TTTT  *\n"
    \o "          BB * BB * BB * BB * BB * BB * BB   "

\* TEMPLATE.lines() of main.rs, each line trimmed at its end
MainTemplateLines == [i \in DOMAIN Lines(MAIN_TEMPLATE) |-> trim_end(Lines(MAIN_TEMPLATE)[i])]

\* a Game of main.rs: its State has buildings, roads and robber only
MainGame(tiles, buildings, roads, robber) ==
    [ board |-> [tiles |-> tiles],
      state |-> [buildings |-> buildings, roads |-> roads, robber |-> robber] ]

\* impl TryFrom<String> for Game of main.rs: Ok(game), Err or Panic. The
\* slots are scanned from the trimmed template lines and the three loops
\* are those of game/encoding.rs, statement for statement
main_try_from(board_str) ==
    Bind(Lines(board_str), LAMBDA lines :
    IF MainTemplateLines # TemplateLines \/ ~SlotCountsOk THEN Panic ELSE
    Bind(decode_buildings(lines), LAMBDA buildings :
    IF buildings.tag # "Ok" THEN buildings ELSE
    Bind(decode_roads(lines), LAMBDA roads :
    IF roads.tag # "Ok" THEN roads ELSE
    Bind(decode_tiles(lines), LAMBDA tiles :
    IF tiles.tag # "Ok" THEN tiles
    ELSE IF tiles.val.robber = <<>> THEN Panic
    ELSE Ok(MainGame(tiles.val.tiles, buildings.val, roads.val, tiles.val.robber[1]))))))

\* an encoder that marks the tile after the robber's
main_from_robber_on_next_tile(self) ==
    Bind(MapOfVec(self.state.buildings, "intersection_id"), LAMBDA building_map :
    Bind(MapOfVec(self.state.roads, "id"), LAMBDA road_map :
    Bind([n \in 1 .. Len(self.board.tiles) |->
            format_02(self.board.tiles[n].dice) \o TileKindToChar(self.board.tiles[n].kind)
                \o (IF n - 2 = self.state.robber THEN "!" ELSE " ")], LAMBDA tile_cells :
    Bind([n \in 1 .. INTERSECTIONS |->
            IF (n - 1) \notin DOMAIN building_map THEN "oo"
            ELSE PlayerToChar(building_map[n - 1].player)
                 \o (IF building_map[n - 1].kind = "Settlement" THEN "S" ELSE "C")],
         LAMBDA building_cells :
    Bind([n \in 1 .. PATHS |->
            IF (n - 1) \notin DOMAIN road_map THEN "."
            ELSE PlayerToChar(road_map[n - 1].player)], LAMBDA road_cells :
    Bind(replace_each(MAIN_TEMPLATE, "TTTT", tile_cells, 1, Len(self.board.tiles)), LAMBDA output1 :
    Bind(replace_each(output1, "BB", building_cells, 1, INTERSECTIONS), LAMBDA output2 :
        replace_each(output2, "*", road_cells, 1, PATHS))))))))

\* impl From<Game> for String of main.rs
main_from(self) ==
    Bind(MapOfVec(self.state.buildings, "intersection_id"), LAMBDA building_map :
    Bind(MapOfVec(self.state.roads, "id"), LAMBDA road_map :
    Bind([n \in 1 .. Len(self.board.tiles) |->
            format_02(self.board.tiles[n].dice) \o TileKindToChar(self.board.tiles[n].kind)
                \o (IF n - 1 = self.state.robber THEN "!" ELSE " ")], LAMBDA tile_cells :
    Bind([n \in 1 .. INTERSECTIONS |->
            IF (n - 1) \notin DOMAIN building_map THEN "oo"
            ELSE PlayerToChar(building_map[n - 1].player)
                 \o (IF building_map[n - 1].kind = "Settlement" THEN "S" ELSE "C")],
         LAMBDA building_cells :
    Bind([n \in 1 .. PATHS |->
            IF (n - 1) \notin DOMAIN road_map THEN "."
            ELSE PlayerToChar(road_map[n - 1].player)], LAMBDA road_cells :
    Bind(replace_each(MAIN_TEMPLATE, "TTTT", tile_cells, 1, Len(self.board.tiles)), LAMBDA output1 :
    Bind(replace_each(output1, "BB", building_cells, 1, INTERSECTIONS), LAMBDA output2 :
        replace_each(output2, "*", road_cells, 1, PATHS))))))))

\* the game of tests::test_parse1 in main.rs (building 35 is listed before 29)
MainParse1Game ==
    MainGame(SampleTiles,
             << Building(10, "Settlement", "Red"), Building(13, "Settlement", "Blue"),
                Building(19, "Settlement", "White"), Building(35, "Settlement", "White"),
                Building(29, "Settlement", "Red"), Building(40, "Settlement", "Red"),
                Building(44, "Settlement", "Red") >>,
             << Road(13, "Red"), Road(15, "Blue"), Road(37, "White"),
                Road(41, "Red"), Road(56, "Blue"), Road(52, "Blue") >>,
             7)

\* the game of tests::test_parse2 in main.rs, every intersection and every
\* path taken by the given player
FullBoardGame(kind, player) ==
    MainGame(SampleTiles,
             [n \in 1 .. INTERSECTIONS |-> Building(n - 1, kind, player)],
             [n \in 1 .. PATHS |-> Road(n - 1, player)],
             8)

\* robber ids the callers put into a game
MainRobbers == {0, 7, 8, 18}

\* games handed to the encoder of main.rs: those of its two tests, the same
\* full board with Blue cities, and the empty board, with the robber moved
\* and a tile of Brick carrying the largest two-digit dice value
MainGames ==
    { [g EXCEPT !.state.robber = r, !.board.tiles[5].dice = d] :
        g \in { MainParse1Game,
                FullBoardGame("Settlement", "White"),
                FullBoardGame("City", "Blue"),
                MainGame(SampleTiles, <<>>, <<>>, 0) },
        r \in MainRobbers,
        d \in {SampleTiles[5].dice, 99} }

\* the text of tests::test_longest_road in main.rs
MainSampleText ==
    "\n"
    \o "          oo . oo . oo . oo . oo W oo W oo\n"
    \o "          .   10O   .   02W   .   09L   W\n"
    \o "     oo . oo . oo . RS R oo . oo B BS W oo . oo\n"
    \o "     .   12G   .   06B   .   04W   W   10B   .\n"
    \o "oo . oo . oo W WS . oo . oo . oo . oo W oo . oo . oo\n"
    \o ".   09G!  .   11L   .   00N   .   03L   W   08O   .\n"
    \o "oo . oo . RS R oo . oo . oo . oo . oo . WS . oo . oo\n"
    \o "     .   08L   .   03O   .   04G   B   05W   .\n"
    \o "     oo . oo . RS B oo . oo . oo . RS . oo . oo\n"
    \o "          .   05B   .   06G   .   11W   .\n"
    \o "          oo . oo . oo . oo . oo . oo . oo"

\* let r: Result<Game, _> = text.clone().try_into() in main.rs
MainDecode ==
    \E r \in {main_try_from(text)} :
        /\ calls' = LastCall \o <<Call("main::try_from", text, r)>>
        /\ game' = IF r.tag = "Ok" THEN r.val ELSE game
        /\ UNCHANGED <<text, stock, placed, search>>

\* text = String::from(game) in main.rs
MainEncode ==
    \E output \in {main_from(game)} :
        /\ text' = output
        /\ calls' = LastCall \o <<Call("main::from", game, output)>>
        /\ UNCHANGED <<game, stock, placed, search>>

InitMain ==
    /\ game \in MainGames
    /\ text = MainSampleText
    /\ stock = ZeroStock
    /\ calls = <<>>
    /\ placed = 0
    /\ search = Idle

NextMain ==
    \/ MainEncode
    \/ MainDecode

\* the codec of main.rs on the games of its tests
SpecMain == InitMain /\ [][NextMain]_vars

----------------------------------------------------------------------------
(* The two recursive searches, one call or loop step at a time *)

\* the top frame of the call stack
Top == search.stack[Len(search.stack)]

\* the call stack without its top frame
Popped == SubSeq(search.stack, 1, Len(search.stack) - 1)

\* the call stack with its top frame replaced
WithTop(frame) == [search.stack EXCEPT ![Len(search.stack)] = frame]

\* the adjacency map the running dfs was handed
SearchGraph == search.graph

\* game.longest_road(player) is called: dfs(6, &graph, &mut visited, 0)
StartLongestRoad(player) ==
    /\ search.pc = "idle"
    /\ \E graph \in {road_graph(game, player)} :
          search' = [Idle EXCEPT !.pc = "dfs_call", !.kind = "dfs", !.player = player,
                                 !.graph = graph, !.arg = 6]
    /\ UNCHANGED <<game, text, stock, calls, placed>>

\* the entry of dfs with a check of visited that never inserts the node
DfsCall_without_insert ==
    /\ search.pc = "dfs_call"
    /\ search' =
         IF search.arg \in search.visited
             THEN [search EXCEPT !.pc = "dfs_ret", !.ret = [height |-> 0, longest |-> 0]]
         ELSE IF search.arg \notin DOMAIN SearchGraph
             THEN [search EXCEPT !.pc = "done", !.result = Panic,
                                 !.entered = Append(@, search.arg)]
         ELSE [search EXCEPT !.pc = "dfs_loop",
                             !.entered = Append(@, search.arg),
                             !.stack = Append(@, [node |-> search.arg, i |-> 1,
                                                  max1 |-> 0, max2 |-> 0])]
    /\ UNCHANGED <<game, text, stock, calls, placed>>

\* the entry of dfs: return (0, 0) on a visited node, else insert it into
\* visited and start the loop over graph[&node], which unwinds when the node
\* is no key of the graph
DfsCall ==
    /\ search.pc = "dfs_call"
    /\ search' =
         IF search.arg \in search.visited
             THEN [search EXCEPT !.pc = "dfs_ret", !.ret = [height |-> 0, longest |-> 0]]
         ELSE IF search.arg \notin DOMAIN SearchGraph
             THEN [search EXCEPT !.pc = "done", !.result = Panic,
                                 !.visited = @ \cup {search.arg},
                                 !.entered = Append(@, search.arg)]
         ELSE [search EXCEPT !.pc = "dfs_loop",
                             !.visited = @ \cup {search.arg},
                             !.entered = Append(@, search.arg),
                             !.stack = Append(@, [node |-> search.arg, i |-> 1,
                                                  max1 |-> 0, max2 |-> 0])]
    /\ UNCHANGED <<game, text, stock, calls, placed>>

\* the for loop of dfs: call dfs on the next neighbour, or leave the loop
\* and return (max1 + 1, longest)
DfsLoop ==
    /\ search.pc = "dfs_loop"
    /\ search' =
         IF Top.i <= Len(SearchGraph[Top.node])
             THEN [search EXCEPT !.pc = "dfs_call", !.arg = SearchGraph[Top.node][Top.i]]
             ELSE [search EXCEPT !.pc = "dfs_ret",
                                 !.ret = [height |-> Top.max1 + 1,
                                          longest |-> IF Top.max1 + Top.max2 > 0
                                                          THEN Top.max1 + Top.max2 ELSE 0],
                                 !.stack = Popped]
    /\ UNCHANGED <<game, text, stock, calls, placed>>

\* a call of dfs has returned: the caller's loop body updates max1 and max2
\* with the height; the return of the first call ends longest_road
DfsRet ==
    /\ search.pc = "dfs_ret"
    /\ search' =
         IF search.stack = <<>>
             THEN [search EXCEPT !.pc = "done", !.result = Ok(search.ret.longest)]
         ELSE IF Top.max1 < search.ret.height
             THEN [search EXCEPT !.pc = "dfs_loop",
                       !.stack = WithTop([Top EXCEPT !.i = @ + 1, !.max1 = search.ret.height,
                                                     !.max2 = Top.max1])]
         ELSE IF Top.max2 < search.ret.height
             THEN [search EXCEPT !.pc = "dfs_loop",
                       !.stack = WithTop([Top EXCEPT !.i = @ + 1, !.max2 = search.ret.height])]
         ELSE [search EXCEPT !.pc = "dfs_loop", !.stack = WithTop([Top EXCEPT !.i = @ + 1])]
    /\ UNCHANGED <<game, text, stock, calls, placed>>

\* stock.possible_buys() is called: possible_buys_dfs(&stock, &mut buys)
StartPossibleBuys ==
    /\ search.pc = "idle"
    /\ search' = [Idle EXCEPT !.pc = "buys_loop", !.kind = "buys", !.start = stock,
                              !.stack = <<[stock |-> stock, k |-> 1]>>]
    /\ UNCHANGED <<game, text, stock, calls, placed>>

\* one turn of the for loop of possible_buys_dfs: subtract the next cost,
\* which unwinds in a build with overflow checks when a field leaves the
\* range of i8; if no field of the difference is negative insert the buy
\* and call possible_buys_dfs on the difference
BuysLoop ==
    /\ search.pc = "buys_loop"
    /\ Top.k <= Len(CostBuys)
    /\ \E out \in sub_outcomes(Top.stock, CostBuys[Top.k].cost) :
          search' =
            IF out = Panic
                THEN [search EXCEPT !.pc = "done", !.result = Panic]
            ELSE IF is_positive(out.val)
                THEN [search EXCEPT !.buys = @ \cup {CostBuys[Top.k].buy},
                          !.stack = Append(WithTop([Top EXCEPT !.k = @ + 1]),
                                           [stock |-> out.val, k |-> 1])]
            ELSE [search EXCEPT !.stack = WithTop([Top EXCEPT !.k = @ + 1])]
    /\ UNCHANGED <<game, text, stock, calls, placed>>

\* the for loop of possible_buys_dfs is over: the call returns; the return
\* of the first call ends possible_buys with the set of buys
BuysRet ==
    /\ search.pc = "buys_loop"
    /\ Top.k > Len(CostBuys)
    /\ search' =
         IF Len(search.stack) = 1
             THEN [search EXCEPT !.pc = "done", !.result = Ok(search.buys), !.stack = <<>>]
             ELSE [search EXCEPT !.stack = Popped]
    /\ UNCHANGED <<game, text, stock, calls, placed>>

\* sets of paths carrying White roads: none, one road at intersection 6,
\* roads away from 6, the six roads around tile 2, the same with a branch,
\* and a chain from 6 to intersection 45 with the road on path 61
SearchRoadSets ==
    { {}, {9}, {15, 16}, {4, 5, 8, 9, 15, 16}, {4, 5, 8, 9, 15, 16, 17, 22},
      {9, 16, 21, 29, 36, 45, 52, 60, 61} }

\* the stocks the purchase search starts from: amounts around the costs,
\* and stocks with fields at the low edge of i8
SearchStocks ==
    [grain : {0, 1, 3}, wool : {0, 1}, brick : {0, 1, 2}, lumber : {0, 1, 2}, ore : {0, 2}]
        \cup { ResourceCount(-126, 0, 0, 0, -127), ResourceCount(0, 0, -128, -128, 0),
               ResourceCount(-128, 0, 0, 0, 3),
               ResourceCount(-125, 0, 1, 1, -125), ResourceCount(-1, 1, 1, 1, 0) }

InitSearch ==
    /\ \/ /\ \/ \E S \in SearchRoadSets :
                   game = MkGame(<<>>, AscendingRoads(S, "White"), 0, SampleResources)
             \/ game = SampleGameLongest
          /\ stock = ZeroStock
       \/ /\ game = MkGame(<<>>, <<>>, 0, SampleResources)
          /\ stock \in SearchStocks
    /\ text = ""
    /\ calls = <<>>
    /\ placed = 0
    /\ search = Idle

\* the steps of a search in progress
SearchStep ==
    \/ DfsCall
    \/ DfsLoop
    \/ DfsRet
    \/ BuysLoop
    \/ BuysRet

NextSearch ==
    \/ \E p \in Player : StartLongestRoad(p)
    \/ StartPossibleBuys
    \/ SearchStep

\* a search that has been called keeps running: the program is sequential
\* and nothing suspends a call
SpecSearch == InitSearch /\ [][NextSearch]_vars /\ WF_vars(SearchStep)

----------------------------------------------------------------------------
(* Vocabulary of the properties *)

\* the most recent call in the log
LastOp == IF calls = <<>> THEN "none" ELSE calls[Len(calls)].op
LastArg == calls[Len(calls)].arg
LastOut == calls[Len(calls)].out

\* ids of the paths a player has a road on
OwnedPathIds(self, player) ==
    { self.state.roads[i].id :
        i \in { j \in DOMAIN self.state.roads : self.state.roads[j].player = player } }

\* the one or two intersections a path joins
Endpoints(id) == {paths[id][1], paths[id][2]}

VerticesOf(ids) == UNION { Endpoints(id) : id \in ids }

RECURSIVE ReachVia(_, _)
\* the intersections connected to S by the paths ids
ReachVia(ids, S) ==
    LET T == S \cup VerticesOf({ id \in ids : Endpoints(id) \cap S # {} })
    IN IF T = S THEN S ELSE ReachVia(ids, T)

\* the paths of ids in the connected component of intersection v
ComponentIds(ids, v) == { id \in ids : Endpoints(id) \cap ReachVia(ids, {v}) # {} }

\* ids is one connected graph without a cycle
IsTree(ids) ==
    /\ ids # {}
    /\ \A v \in VerticesOf(ids) : ReachVia(ids, {v}) = VerticesOf(ids)
    /\ Cardinality(ids) = Cardinality(VerticesOf(ids)) - 1

RECURSIVE Eccentricity(_, _, _)
\* the number of edges from the start of S to the farthest intersection
Eccentricity(ids, S, n) ==
    LET T == S \cup VerticesOf({ id \in ids : Endpoints(id) \cap S # {} })
    IN IF T = S THEN n ELSE Eccentricity(ids, T, n + 1)

\* the number of edges of the longest simple path of the tree ids
Diameter(ids) ==
    LET ecc == { Eccentricity(ids, {v}, 0) : v \in VerticesOf(ids) }
    IN CHOOSE d \in ecc : \A e \in ecc : e <= d

\* number of paths of ids that meet intersection v
Degree(ids, v) == Cardinality({ id \in ids : v \in Endpoints(id) })

\* the component of intersection 6 is one unbranched simple path
IsSimplePathAt6(ids) ==
    LET c == ComponentIds(ids, 6)
    IN /\ c # {}
       /\ Cardinality(c) = Cardinality(VerticesOf(c)) - 1
       /\ \A v \in VerticesOf(c) : Degree(c, v) <= 2

\* intersections that carry a building
BuiltSites(self) ==
    { self.state.buildings[i].intersection_id : i \in DOMAIN self.state.buildings }

\* both endpoints of every path listed at an intersection that carries a building
TooCloseSet(self) ==
    UNION { UNION { Endpoints(intersections[b].paths[k]) :
                      k \in DOMAIN intersections[b].paths } : b \in BuiltSites(self) }

\* frontier vertices of a player: exactly one of the player's roads meets them
Frontier(self, player) ==
    { v \in VerticesOf(OwnedPathIds(self, player)) :
        Degree(OwnedPathIds(self, player), v) = 1 }

\* the far end of the single owned road at frontier vertex f
FarEnd(self, player, f) ==
    LET id == CHOOSE x \in OwnedPathIds(self, player) : f \in Endpoints(x)
    IN IF paths[id][1] = f THEN paths[id][2] ELSE paths[id][1]

\* the candidate paths, the exclusion judged per frontier vertex
PerFrontierCandidates(self, player) ==
    { paths[j] : j \in { i \in DOMAIN paths :
        \E f \in Frontier(self, player) :
            \/ paths[i][1] = f /\ paths[i][2] # FarEnd(self, player, f)
            \/ paths[i][2] = f /\ paths[i][1] # FarEnd(self, player, f) } }

\* the purchase kinds whose cost the stock covers field by field
Affordable(s) ==
    { CostBuys[k].buy : k \in { i \in DOMAIN CostBuys :
        /\ CostBuys[i].cost.grain <= s.grain
        /\ CostBuys[i].cost.wool <= s.wool
        /\ CostBuys[i].cost.brick <= s.brick
        /\ CostBuys[i].cost.lumber <= s.lumber
        /\ CostBuys[i].cost.ore <= s.ore } }

NonNegative(s) ==
    s.grain >= 0 /\ s.wool >= 0 /\ s.brick >= 0 /\ s.lumber >= 0 /\ s.ore >= 0

\* the lines of S after the board lines that start with a player letter
TrailingResourceLines(S) ==
    Bind(Lines(S), LAMBDA ls :
        SelectSeq(SubSeq(ls, Len(TemplateLines) + 1, Len(ls)),
                  LAMBDA l : l # "" /\ CharAt(l, 1) \in {"W", "R", "B"}))

\* a resource line: a player letter followed by five integers
IsResourceLine(l) ==
    \E t \in {split_whitespace(l)} :
        /\ Len(t) = 6
        /\ t[1] \in {"W", "R", "B"}
        /\ \A k \in 2 .. 6 : parse_usize(t[k]).tag = "Ok"

\* S ends with exactly one resource line per player letter, in any order
HasThreeResourceLines(S) ==
    \E rl \in {TrailingResourceLines(S)} :
        /\ Len(rl) = 3
        /\ \A k \in 1 .. 3 : IsResourceLine(rl[k])
        /\ { CharAt(rl[k], 1) : k \in 1 .. 3 } = {"W", "R", "B"}

\* the five counts written on the resource line of S that starts with letter
CountsOn(S, letter) ==
    Bind(TrailingResourceLines(S), LAMBDA rl :
    Bind(split_whitespace(rl[CHOOSE k \in 1 .. 3 : CharAt(rl[k], 1) = letter]), LAMBDA t :
        ResourceCount(parse_usize(t[2]).val, parse_usize(t[3]).val, parse_usize(t[4]).val,
                      parse_usize(t[5]).val, parse_usize(t[6]).val)))

\* a board-plus-resources text: the board lines aligned with the template,
\* every slot filled with a legal cell, one robber marker, blank elsewhere,
\* followed by the three resource lines
ValidText(S) ==
    \E ls \in {Lines(S)} :
        /\ Len(ls) = Len(TemplateLines) + 3
        /\ \A i \in DOMAIN TemplateLines : Len(ls[i]) = Len(TemplateLines[i])
        /\ \A i \in DOMAIN TemplateLines : \A c \in 1 .. Len(TemplateLines[i]) :
               CharAt(TemplateLines[i], c) = " " => CharAt(ls[i], c) = " "
        /\ decode_buildings(ls).tag = "Ok"
        /\ decode_roads(ls).tag = "Ok"
        /\ decode_tiles(ls).tag = "Ok"
        /\ Cardinality({ k \in DOMAIN tile_slots :
               CharAt(ls[tile_slots[k].line], tile_slots[k].col + 4) = "!" }) = 1
        /\ HasThreeResourceLines(S)

\* a game whose buildings, roads and robber fit the board
WellFormedGame(g) ==
    /\ \A i \in DOMAIN g.state.buildings :
          /\ g.state.buildings[i].intersection_id \in 0 .. (INTERSECTIONS - 1)
          /\ \A j \in DOMAIN g.state.buildings :
                g.state.buildings[i].intersection_id = g.state.buildings[j].intersection_id
                    => i = j
    /\ \A i \in DOMAIN g.state.roads :
          /\ g.state.roads[i].id \in 0 .. (PATHS - 1)
          /\ \A j \in DOMAIN g.state.roads : g.state.roads[i].id = g.state.roads[j].id => i = j
    /\ g.state.robber \in 0 .. (TILES - 1)
    /\ \A p \in {"white", "red", "blue"} : NonNegative(g.state.resources[p])

\* two states with the same buildings, roads, robber and resource counts
SameContent(s, t) ==
    /\ { s.buildings[i] : i \in DOMAIN s.buildings } = { t.buildings[i] : i \in DOMAIN t.buildings }
    /\ { s.roads[i] : i \in DOMAIN s.roads } = { t.roads[i] : i \in DOMAIN t.roads }
    /\ s.robber = t.robber
    /\ s.resources = t.resources

----------------------------------------------------------------------------
(* Properties *)

\* C1: decoding a valid board-plus-resources text S succeeds, and encoding
\* the decoded Game yields S again, character for character.
C1_TextRoundTrip ==
    /\ (LastOp = "try_from" /\ ValidText(LastArg)) => LastOut.tag = "Ok"
    /\ ( /\ Len(calls) = 2
         /\ calls[1].op = "try_from"
         /\ calls[2].op = "from"
         /\ ValidText(calls[1].arg)
         /\ calls[1].out.tag = "Ok"
         /\ calls[2].arg = calls[1].out.val )
       => calls[2].out = calls[1].arg

\* C2: for a Game g with buildings on distinct intersections, roads on
\* distinct paths, a robber id in 0..18 and integer resource counts, decoding
\* the text produced by encoding g succeeds, yields a State with the content
\* of g.state, and encoding the decoded Game gives the same text again.
C2_StateRoundTrip ==
    ( /\ Len(calls) = 2
      /\ calls[1].op = "from"
      /\ calls[2].op = "try_from"
      /\ calls[2].arg = calls[1].out
      /\ WellFormedGame(calls[1].arg) )
    => /\ calls[2].out.tag = "Ok"
       /\ SameContent(calls[2].out.val.state, calls[1].arg.state)
       /\ from(calls[2].out.val) = calls[1].out

\* C3: when the roads a player owns form one connected cycle-free graph
\* that contains intersection 6, longest_road returns the number of edges of
\* the longest simple path anywhere in that graph (the tree diameter).
C3_LongestRoadIsDiameter ==
    ( /\ LastOp = "longest_road"
      /\ IsTree(OwnedPathIds(game, LastArg))
      /\ 6 \in VerticesOf(OwnedPathIds(game, LastArg)) )
    => /\ LastOut.tag = "Ok"
       /\ LastOut.val = Diameter(OwnedPathIds(game, LastArg))

\* C4: when the roads a player owns around intersection 6 form one unbranched
\* simple path of n >= 1 edges, longest_road returns n (edges, not vertices),
\* whatever other disconnected roads the player owns.
C4_SimplePathLength ==
    (LastOp = "longest_road" /\ IsSimplePathAt6(OwnedPathIds(game, LastArg)))
    => /\ LastOut.tag = "Ok"
       /\ LastOut.val = Cardinality(ComponentIds(OwnedPathIds(game, LastArg), 6))

\* C4 happens: the 7-edge White path of the sample board, next to a
\* disconnected White road, has been measured as 7
C4_Witness ==
    /\ LastOp = "longest_road"
    /\ LastArg = "White"
    /\ game = SampleGameLongest
    /\ IsSimplePathAt6(OwnedPathIds(game, "White"))
    /\ ComponentIds(OwnedPathIds(game, "White"), 6) # OwnedPathIds(game, "White")
    /\ LastOut.tag = "Ok"
    /\ LastOut.val = 7

\* C5: possible_building_intersections(player) is exactly the set of
\* endpoints of the player's roads that are not in the too-close set (both
\* endpoints of every path listed at an intersection that carries a building).
C5_BuildingCandidates ==
    LastOp = "possible_building_intersections"
    => LastOut = VerticesOf(OwnedPathIds(game, LastArg)) \ TooCloseSet(game)

\* C5 happens: on the sample board White is offered {4, 5, 6, 46}, and some
\* endpoints of White roads are withheld
C5_Witness ==
    /\ LastOp = "possible_building_intersections"
    /\ LastArg = "White"
    /\ game = SampleGameMoves
    /\ LastOut = {4, 5, 6, 46}
    /\ VerticesOf(OwnedPathIds(game, "White")) \cap TooCloseSet(game) # {}

\* C6: no intersection returned by possible_building_intersections carries
\* a building, and none is joined by a board path to one that carries a
\* building of any owner.
C6_DistanceRule ==
    LastOp = "possible_building_intersections"
    => \A i \in LastOut :
          /\ i \notin BuiltSites(game)
          /\ \A j \in DOMAIN paths :
                i \in Endpoints(j) => Endpoints(j) \cap BuiltSites(game) = {}

\* C6 happens: a player is offered some intersection while another endpoint
\* of the player's roads is next to a building and is not offered
C6_Witness ==
    /\ LastOp = "possible_building_intersections"
    /\ LastOut # {}
    /\ \E v \in VerticesOf(OwnedPathIds(game, LastArg)) :
          /\ v \notin BuiltSites(game)
          /\ \E j \in DOMAIN paths :
                v \in Endpoints(j) /\ Endpoints(j) \cap BuiltSites(game) # {}
          /\ v \notin LastOut

\* C7: possible_road_paths(player) is exactly the set of board paths with a
\* frontier vertex f as an endpoint whose other endpoint is not the far end of
\* f's own single road, the exclusion being judged per frontier vertex.
C7_RoadCandidatesPerFrontier ==
    LastOp = "possible_road_paths"
    => LastOut = PerFrontierCandidates(game, LastArg)

\* C8: every path possible_road_paths returns for a player shares an endpoint
\* with a road of that player, and no other player has a road on it.
C8_NoConflictWithOtherRoads ==
    LastOp = "possible_road_paths"
    => \A path \in LastOut :
          /\ {path[1], path[2]} \cap VerticesOf(OwnedPathIds(game, LastArg)) # {}
          /\ \A q \in Player \ {LastArg} :
                \A id \in OwnedPathIds(game, q) : paths[id] # path

\* C9: for a stock with non-negative fields, possible_buys returns exactly
\* the purchase kinds whose fixed cost the stock covers field by field.
C9_AffordableKinds ==
    (LastOp = "possible_buys" /\ NonNegative(LastArg))
    => LastOut = Affordable(LastArg)

\* C9 happens: a stock of (1,1,1,1,0), yields
\* {Road, Settlement}
C9_Witness ==
    /\ LastOp = "possible_buys"
    /\ LastArg = ResourceCount(1, 1, 1, 1, 0)
    /\ LastOut = {"Road", "Settlement"}

\* C10: whatever the order of the three resource lines of the text, decoding
\* gives White the counts of the line starting with W, Red those of the line
\* starting with R and Blue those of the line starting with B.
C10_ResourcesByLetter ==
    ( /\ LastOp = "try_from"
      /\ HasThreeResourceLines(LastArg)
      /\ LastOut.tag = "Ok" )
    => /\ LastOut.val.state.resources.white = CountsOn(LastArg, "W")
       /\ LastOut.val.state.resources.red = CountsOn(LastArg, "R")
       /\ LastOut.val.state.resources.blue = CountsOn(LastArg, "B")

----------------------------------------------------------------------------
(* Vocabulary of the decoder properties *)

\* the heading of the resource block: the five resource letters
IsHeadingLine(l) == split_whitespace(l) = <<"G", "W", "B", "L", "O">>

\* the five integers written on a resource line after its letter
CountsOfLine(l) ==
    Bind(split_whitespace(l), LAMBDA t :
        ResourceCount(parse_usize(t[2]).val, parse_usize(t[3]).val, parse_usize(t[4]).val,
                      parse_usize(t[5]).val, parse_usize(t[6]).val))

\* the text ends with a heading and the resource lines of W, R and B in
\* this order
ResourceBlockWRB(ls) ==
    /\ Len(ls) >= 4
    /\ IsHeadingLine(ls[Len(ls) - 3])
    /\ \A k \in 0 .. 2 : IsResourceLine(ls[Len(ls) - k])
    /\ CharAt(ls[Len(ls) - 2], 1) = "W"
    /\ CharAt(ls[Len(ls) - 1], 1) = "R"
    /\ CharAt(ls[Len(ls)], 1) = "B"

\* the first lines are a board aligned with the template: every slot holds
\* a legal cell, one tile carries the robber marker, the rest is blank
LegalBoardLines(ls) ==
    /\ Len(ls) >= Len(TemplateLines)
    /\ \A i \in DOMAIN TemplateLines : Len(ls[i]) = Len(TemplateLines[i])
    /\ \A i \in DOMAIN TemplateLines : \A c \in 1 .. Len(TemplateLines[i]) :
           CharAt(TemplateLines[i], c) = " " => CharAt(ls[i], c) = " "
    /\ decode_buildings(ls).tag = "Ok"
    /\ decode_roads(ls).tag = "Ok"
    /\ decode_tiles(ls).tag = "Ok"
    /\ Cardinality({ k \in DOMAIN tile_slots :
           CharAt(ls[tile_slots[k].line], tile_slots[k].col + 4) = "!" }) = 1

\* the k-th character of a slot of the text, "" where the text has none
CellChar(ls, slot, k) ==
    IF slot.line <= Len(ls) /\ slot.col + k <= Len(ls[slot.line])
        THEN CharAt(ls[slot.line], slot.col + k)
        ELSE ""

\* some slot of the text holds a cell outside the alphabet of its kind
HasIllegalCell(ls) ==
    \/ \E n \in DOMAIN building_slots :
          /\ CellChar(ls, building_slots[n], 1) \notin {"", "o"}
          /\ \/ CellChar(ls, building_slots[n], 1) \notin {"R", "B", "W"}
             \/ CellChar(ls, building_slots[n], 2) \notin {"", "S", "C"}
    \/ \E n \in DOMAIN road_slots :
          CellChar(ls, road_slots[n], 1) \notin {"", ".", "R", "B", "W"}
    \/ \E n \in DOMAIN tile_slots :
          CellChar(ls, tile_slots[n], 3) \notin {"", "G", "W", "B", "L", "O", "N"}

\* the board part of a text: the lines before its heading, all lines if it
\* has no heading
BoardLinesOf(ls) ==
    Bind({ i \in DOMAIN ls : IsHeadingLine(ls[i]) }, LAMBDA headings :
        IF headings = {} THEN ls
        ELSE SubSeq(ls, 1, (CHOOSE i \in headings : \A j \in headings : i <= j) - 1))

\* the number of cells of the board part that are lens characters long
CellsOfLength(ls, lens) ==
    Bind([i \in DOMAIN BoardLinesOf(ls) |-> split_whitespace(BoardLinesOf(ls)[i])], LAMBDA t :
        Cardinality(UNION { { <<i, k>> : k \in { k \in DOMAIN t[i] : Len(t[i][k]) \in lens } } :
                               i \in DOMAIN t }))

\* the numbers of building, tile and edge slots written in a text
InputSlotCounts(ls) == <<CellsOfLength(ls, {2}), CellsOfLength(ls, {3, 4}), CellsOfLength(ls, {1})>>

----------------------------------------------------------------------------
(* Properties of the decoder *)

\* C11: for a text with a legal board followed by a heading and the
\* resource lines in the order W, R, B, decoding succeeds and gives each
\* player the five integers of that player's line as grain, wool, brick,
\* lumber, ore; the heading and the board lines contribute nothing.
C11_ResourcesInFixedOrder ==
    \A ls \in {IF LastOp = "try_from" THEN Lines(LastArg) ELSE <<>>} :
        (LastOp = "try_from" /\ LegalBoardLines(ls) /\ ResourceBlockWRB(ls))
        => /\ LastOut.tag = "Ok"
           /\ LastOut.val.state.resources.white = CountsOfLine(ls[Len(ls) - 2])
           /\ LastOut.val.state.resources.red = CountsOfLine(ls[Len(ls) - 1])
           /\ LastOut.val.state.resources.blue = CountsOfLine(ls[Len(ls)])

\* C12: a decode never aborts the program: whatever the text, the caller
\* gets a Game or an error value.
C12_FailuresAreErrors ==
    LastOp = "try_from" => LastOut.tag \in {"Ok", "Err"}

\* C13: decoding a text with a building, edge or tile slot outside its
\* alphabet returns an error, and a building slot starting with 'o' gives no
\* building whatever its second character.
C13_IllegalCellsAreErrors ==
    \A ls \in {IF LastOp = "try_from" THEN Lines(LastArg) ELSE <<>>} :
        LastOp = "try_from"
        => /\ HasIllegalCell(ls) => LastOut.tag = "Err"
           /\ LastOut.tag = "Ok"
              => \A n \in DOMAIN building_slots :
                    CellChar(ls, building_slots[n], 1) = "o"
                    => (n - 1) \notin OccupiedSites(LastOut.val)

\* C14: a text whose numbers of building, tile and edge slots are not 54,
\* 19 and 72 is never decoded into a Game.
C14_SlotCountsChecked ==
    ( /\ LastOp = "try_from"
      /\ InputSlotCounts(Lines(LastArg)) # <<INTERSECTIONS, TILES, PATHS>> )
    => LastOut.tag # "Ok"

----------------------------------------------------------------------------
(* Properties of the encoder *)

\* the characters the decoder reads for a slot: width characters of the
\* slot's line from the slot's column on
SlotText(ls, slot, width) ==
    IF slot.line <= Len(ls) /\ slot.col + width <= Len(ls[slot.line])
        THEN SubSeq(ls[slot.line], slot.col + 1, slot.col + width)
        ELSE ""

\* the cell of the building on intersection id, "oo" without one
BuildingCell(g, id) ==
    IF id \notin OccupiedSites(g) THEN "oo"
    ELSE Bind(g.state.buildings[CHOOSE i \in DOMAIN g.state.buildings :
                                   g.state.buildings[i].intersection_id = id], LAMBDA b :
             PlayerToChar(b.player) \o (IF b.kind = "City" THEN "C" ELSE "S"))

\* the cell of the road on path id, "." without one
RoadCell(g, id) ==
    IF id \notin OccupiedPaths(g) THEN "."
    ELSE PlayerToChar(g.state.roads[CHOOSE i \in DOMAIN g.state.roads :
                                       g.state.roads[i].id = id].player)

\* the cell of tile id: dice, kind letter and robber marker
TileCell(g, id) ==
    format_02(g.board.tiles[id + 1].dice) \o TileKindToChar(g.board.tiles[id + 1].kind)
        \o (IF g.state.robber = id THEN "!" ELSE " ")

\* every slot of the encoded text, at the line and column where the decoder
\* reads it, holds the cell of the id the decoder gives that slot
CellsAtDecoderSlots(g, out) ==
    \E ls \in {Lines(out)} :
        /\ \A n \in DOMAIN building_slots :
              SlotText(ls, building_slots[n], 2) = BuildingCell(g, n - 1)
        /\ \A n \in DOMAIN tile_slots :
              SlotText(ls, tile_slots[n], 4) = TileCell(g, n - 1)
        /\ \A n \in DOMAIN road_slots :
              SlotText(ls, road_slots[n], 1) = RoadCell(g, n - 1)

\* every tile of the game has a dice value of at most two digits
TwoDigitDice(g) == \A n \in DOMAIN g.board.tiles : g.board.tiles[n].dice < 100

\* C15 (as stated): for every Game, the encoder writes the cell of id n at
\* the line and column from which the decoder reads id n, for building,
\* tile and edge slots.
C15_CanonicalSlots ==
    (LastOp = "from" /\ WellFormedGame(LastArg)) => CellsAtDecoderSlots(LastArg, LastOut)

\* C15 (amended): for every Game whose tiles have dice values below 100, the
\* encoder writes the cell of id n at the line and column from which the
\* decoder reads id n, for building, tile and edge slots.
C15_CanonicalSlotsTwoDigitDice ==
    (LastOp = "from" /\ WellFormedGame(LastArg) /\ TwoDigitDice(LastArg))
    => CellsAtDecoderSlots(LastArg, LastOut)

\* C15 happens: a game with two-digit dice, buildings and roads, the robber
\* on the last tile, has been encoded
C15_Witness ==
    /\ LastOp = "from"
    /\ WellFormedGame(LastArg)
    /\ TwoDigitDice(LastArg)
    /\ LastArg.state.robber = TILES - 1
    /\ OccupiedSites(LastArg) # {}
    /\ OccupiedPaths(LastArg) # {}
    /\ SlotText(Lines(LastOut), tile_slots[TILES], 4) = "11W!"

\* C16: in the text encoded for a Game with its robber on a tile 0..18, the
\* slot of that tile and no other ends with '!', every other tile slot ends
\* with a space, and decoding the text gives the same robber id.
C16_RobberMarker ==
    ( /\ Len(calls) = 2
      /\ calls[1].op = "from"
      /\ calls[2].op = "try_from"
      /\ calls[2].arg = calls[1].out
      /\ calls[1].arg.state.robber \in 0 .. (TILES - 1) )
    => /\ \A n \in DOMAIN tile_slots :
             CharAt(SlotText(Lines(calls[1].out), tile_slots[n], 4), 4)
                 = (IF n - 1 = calls[1].arg.state.robber THEN "!" ELSE " ")
       /\ calls[2].out.tag = "Ok"
       /\ calls[2].out.val.state.robber = calls[1].arg.state.robber

----------------------------------------------------------------------------
(* Properties of the resource counts and of the board *)

ResourceFields == {"grain", "wool", "brick", "lumber", "ore"}

\* C17: is_positive returns false if at least one of the five fields is
\* negative and true otherwise; a field equal to zero is allowed.
C17_IsPositive ==
    LastOp = "is_positive"
    => (LastOut <=> ~(\E f \in ResourceFields : LastArg[f] < 0))

\* C17 happens: a stock with a field at zero and none below is accepted
C17_Witness ==
    /\ LastOp = "is_positive"
    /\ \E f \in ResourceFields : LastArg[f] = 0
    /\ \A f \in ResourceFields : LastArg[f] >= 0
    /\ LastOut = TRUE

\* the elements of a Vec
Elements(v) == { v[k] : k \in DOMAIN v }

\* C19: each of the 54 intersections of the board lists 2 or 3 path ids in
\* 0..71 and 1 to 3 tile ids in 0..18, and both endpoints of each of the 72
\* paths are intersection ids in 0..53.
C19_BoardWellFormed ==
    /\ DOMAIN intersections = 0 .. (INTERSECTIONS - 1)
    /\ DOMAIN paths = 0 .. (PATHS - 1)
    /\ Len(game.board.tiles) = TILES
    /\ \A i \in DOMAIN intersections :
          /\ Len(intersections[i].paths) \in {2, 3}
          /\ Elements(intersections[i].paths) \subseteq 0 .. (PATHS - 1)
          /\ Len(intersections[i].tiles) \in 1 .. 3
          /\ Elements(intersections[i].tiles) \subseteq 0 .. (TILES - 1)
    /\ \A p \in DOMAIN paths :
          {paths[p][1], paths[p][2]} \subseteq 0 .. (INTERSECTIONS - 1)

\* C19 happens: the board has been walked from buildings on an intersection
\* with 2 paths and 1 tile and on one with 3 paths and 3 tiles
C19_Witness ==
    /\ LastOp = "too_close_intersections"
    /\ \E a, b \in OccupiedSites(game) :
          /\ Len(intersections[a].paths) = 2
          /\ Len(intersections[a].tiles) = 1
          /\ Len(intersections[b].paths) = 3
          /\ Len(intersections[b].tiles) = 3
    /\ LastOut # {}

\* the intersections that list tile t as adjacent
CornersOf(t) == { i \in DOMAIN intersections : t \in Elements(intersections[i].tiles) }

\* C20: every tile id 0..18 is listed as adjacent by exactly six
\* intersections of the board.
C20_SixCornersPerTile ==
    \A t \in 0 .. (Len(game.board.tiles) - 1) : Cardinality(CornersOf(t)) = 6

----------------------------------------------------------------------------
(* Properties of the road graph *)

\* C21: for every state and player, also when the player owns a road on a
\* path whose two endpoints are the same intersection, road_graph lists no
\* intersection among its own neighbours.
C21_NoSelfNeighbour ==
    \A p \in Player :
        \A graph \in {road_graph(game, p)} :
            \A k \in DOMAIN graph : \A i \in DOMAIN graph[k] : graph[k][i] # k

\* C22: when no road of the player meets intersection 6, longest_road
\* returns normally and reports the length 0.
C22_ZeroWithoutSix ==
    (LastOp = "longest_road" /\ 6 \notin VerticesOf(OwnedPathIds(game, LastArg)))
    => LastOut = Ok(0)

\* C27: possible_road_paths(player) never contains a path on which the
\* same player already owns a road.
C27_NoOwnRoadOffered ==
    LastOp = "possible_road_paths"
    => \A id \in OwnedPathIds(game, LastArg) : paths[id] \notin LastOut

\* C27 happens: a player with a road at a frontier vertex is offered paths
C27_Witness ==
    /\ LastOp = "possible_road_paths"
    /\ Frontier(game, LastArg) # {}
    /\ LastOut # {}

----------------------------------------------------------------------------
(* Further properties of the decoder *)

\* a slot that starts at column 0 of its board line holds a player letter
PlayerLetterAtColumnZero(ls) ==
    \/ \E n \in DOMAIN building_slots :
          building_slots[n].col = 0 /\ CellChar(ls, building_slots[n], 1) \in {"W", "R", "B"}
    \/ \E n \in DOMAIN road_slots :
          road_slots[n].col = 0 /\ CellChar(ls, road_slots[n], 1) \in {"W", "R", "B"}

\* C25: board lines are never taken for resource lines: for a text with a
\* legal board and the resource block in which a slot at column 0 of a board
\* line holds a player letter, decoding succeeds and the three players'
\* counts are those of the three resource lines.
C25_BoardLinesAreNotResourceLines ==
    \A ls \in {IF LastOp = "try_from" THEN Lines(LastArg) ELSE <<>>} :
        ( /\ LastOp = "try_from"
          /\ LegalBoardLines(ls)
          /\ ResourceBlockWRB(ls)
          /\ PlayerLetterAtColumnZero(ls) )
        => /\ LastOut.tag = "Ok"
           /\ { LastOut.val.state.resources[p] : p \in {"white", "red", "blue"} }
                = { CountsOfLine(ls[Len(ls) - k]) : k \in 0 .. 2 }

\* the tile ids whose slot carries the robber marker
MarkedTiles(ls) == { n - 1 : n \in { m \in DOMAIN tile_slots : CellChar(ls, tile_slots[m], 4) = "!" } }

\* C29: the State of a successful decode holds buildings with intersection
\* ids in 0..53 and roads with path ids in 0..71, both in strictly ascending
\* id order (so at most one per intersection and per path), and a robber id
\* in 0..18 which is the last tile in scan order that carries '!'.
C29_DecodedStateWellFormed ==
    \A ls \in {IF LastOp = "try_from" THEN Lines(LastArg) ELSE <<>>} :
        (LastOp = "try_from" /\ LastOut.tag = "Ok")
        => \E s \in {LastOut.val.state} :
              /\ \A i \in DOMAIN s.buildings :
                    /\ s.buildings[i].intersection_id \in 0 .. (INTERSECTIONS - 1)
                    /\ i > 1 => s.buildings[i - 1].intersection_id < s.buildings[i].intersection_id
              /\ \A i \in DOMAIN s.roads :
                    /\ s.roads[i].id \in 0 .. (PATHS - 1)
                    /\ i > 1 => s.roads[i - 1].id < s.roads[i].id
              /\ s.robber \in 0 .. (TILES - 1)
              /\ s.robber \in MarkedTiles(ls)
              /\ \A t \in MarkedTiles(ls) : t <= s.robber

\* C29 happens: a text with two robber markers and several buildings and
\* roads was decoded
C29_Witness ==
    /\ LastOp = "try_from"
    /\ LastOut.tag = "Ok"
    /\ Cardinality(MarkedTiles(Lines(LastArg))) = 2
    /\ Len(LastOut.val.state.buildings) > 1
    /\ Len(LastOut.val.state.roads) > 1

----------------------------------------------------------------------------
(* Agreement of the two adjacency tables *)

\* the intersections excluded as too close by one building at intersection a
ExcludedBy(a) ==
    too_close_intersections([game EXCEPT !.state.buildings = <<Building(a, "Settlement", "White")>>])

\* C26: every path id p with paths[p] = (a, b) is listed among the incident
\* paths of a and of b, every path id listed at an intersection i has i as
\* an endpoint, and a building at a excludes b as too close exactly when a
\* building at b excludes a.
C26_AdjacencyTablesAgree ==
    /\ \A p \in DOMAIN paths : \A e \in {paths[p][1], paths[p][2]} :
          p \in Elements(intersections[e].paths)
    /\ \A i \in DOMAIN intersections : \A p \in Elements(intersections[i].paths) :
          i \in {paths[p][1], paths[p][2]}
    /\ \A a, b \in DOMAIN intersections : (b \in ExcludedBy(a)) <=> (a \in ExcludedBy(b))

----------------------------------------------------------------------------
(* Order of the road entries *)

\* ids has no cycle: every connected component has one edge less than it
\* has intersections (a path from an intersection to itself is a cycle)
CycleFree(ids) ==
    \A v \in VerticesOf(ids) :
        Cardinality(ComponentIds(ids, v)) = Cardinality(ReachVia(ids, {v})) - 1

\* the state with the same roads listed by ascending path id, as a decode
\* of its encoded text lists them
RoadsById(self) ==
    [self EXCEPT !.state.roads =
        [k \in DOMAIN @ |->
            CHOOSE r \in Elements(@) :
                Cardinality({ s \in Elements(@) : s.id < r.id }) = k - 1]]

\* C30: longest_road(player) gives the same result on a state and on the
\* state with the same roads listed in another order, also when the
\* player's road graph contains a cycle.
C30_RoadOrderIrrelevant ==
    LastOp = "longest_road" => LastOut = longest_road(RoadsById(game), LastArg)

\* C30, restricted: the same when the player's road graph is cycle-free
C30_RoadOrderIrrelevantWithoutCycle ==
    (LastOp = "longest_road" /\ CycleFree(OwnedPathIds(game, LastArg)))
    => LastOut = longest_road(RoadsById(game), LastArg)

\* C30 happens: a length was computed on a cycle-free graph whose roads at
\* intersection 6 are listed in descending order and lead to branches of
\* different heights
C30_Witness ==
    /\ LastOp = "longest_road"
    /\ CycleFree(OwnedPathIds(game, LastArg))
    /\ game.state.roads # RoadsById(game).state.roads
    /\ {4, 5, 9, 15, 16} \subseteq OwnedPathIds(game, LastArg)
    /\ road_graph(game, LastArg)[6] = <<14, 5>>
    /\ LastOut = Ok(5)

----------------------------------------------------------------------------
(* Cost deduction over the range of i8 *)

\* stock - cost came out without overflow as the field-wise difference, and
\* it is non-negative exactly when the stock covers the cost
ExactDifference(self, rhs, out) ==
    /\ out.tag = "Ok"
    /\ \A f \in ResourceFields : out.val[f] = self[f] - rhs[f]
    /\ is_positive(out.val) <=> \A f \in ResourceFields : self[f] >= rhs[f]

\* C28: for every stock whose five fields lie in -128..127 and each of the
\* three costs, stock - cost never overflows or wraps and is non-negative
\* exactly when every field of the stock is at least the cost's; and
\* possible_buys returns the empty set for every stock with a negative field.
C28_FeasibilityOverI8 ==
    /\ LastOp = "sub" => ExactDifference(LastArg.self, LastArg.rhs, LastOut)
    /\ (LastOp = "possible_buys" /\ ~is_positive(LastArg)) => LastOut = Ok({})

\* the fields of a stock lie in -125 .. 127
AboveLowEdge(self) == \A f \in ResourceFields : self[f] \in -125 .. 127

\* C28, restricted: the same for every stock whose five fields lie in
\* -125..127
C28_FeasibilityAboveLowEdge ==
    /\ (LastOp = "sub" /\ AboveLowEdge(LastArg.self))
       => ExactDifference(LastArg.self, LastArg.rhs, LastOut)
    /\ (LastOp = "possible_buys" /\ AboveLowEdge(LastArg) /\ ~is_positive(LastArg))
       => LastOut = Ok({})

\* C28 happens: the city cost was deducted from a stock with -125 grain and
\* -125 ore, the lowest stock that the range of i8 still holds afterwards
C28_Witness ==
    /\ LastOp = "sub"
    /\ LastArg.rhs = CITY_COST
    /\ LastArg.self.grain = -125
    /\ LastArg.self.ore = -125
    /\ LastOut.tag = "Ok"
    /\ LastOut.val.grain = -128

----------------------------------------------------------------------------
(* The codec of main.rs *)

\* a game of main.rs with buildings on distinct intersections 0..53, roads
\* on distinct paths 0..71, a robber id in 0..18 and dice values up to 99
MainWellFormed(g) ==
    /\ \A i \in DOMAIN g.state.buildings :
          /\ g.state.buildings[i].intersection_id \in 0 .. (INTERSECTIONS - 1)
          /\ \A j \in DOMAIN g.state.buildings :
                g.state.buildings[i].intersection_id = g.state.buildings[j].intersection_id
                    => i = j
    /\ \A i \in DOMAIN g.state.roads :
          /\ g.state.roads[i].id \in 0 .. (PATHS - 1)
          /\ \A j \in DOMAIN g.state.roads : g.state.roads[i].id = g.state.roads[j].id => i = j
    /\ g.state.robber \in 0 .. (TILES - 1)
    /\ \A n \in DOMAIN g.board.tiles : g.board.tiles[n].dice <= 99

\* C23: in the codec of main.rs, for every such Game, decoding the
\* encoder's output succeeds and encoding the decoded Game reproduces the
\* same text; also with a building on every intersection and a road on
\* every path.
C23_MainRoundTrip ==
    ( /\ Len(calls) = 2
      /\ calls[1].op = "main::from"
      /\ calls[2].op = "main::try_from"
      /\ calls[2].arg = calls[1].out
      /\ MainWellFormed(calls[1].arg) )
    => /\ calls[2].out.tag = "Ok"
       /\ main_from(calls[2].out.val) = calls[1].out

\* C23 happens: the full board of Blue cities, with the robber on the last
\* tile, was encoded and the text decoded again
C23_Witness ==
    /\ Len(calls) = 2
    /\ calls[1].op = "main::from"
    /\ calls[2].op = "main::try_from"
    /\ calls[2].arg = calls[1].out
    /\ Len(calls[1].arg.state.buildings) = INTERSECTIONS
    /\ Len(calls[1].arg.state.roads) = PATHS
    /\ calls[1].arg.state.buildings[1].player = "Blue"
    /\ calls[1].arg.state.robber = TILES - 1
    /\ calls[2].out.tag = "Ok"
    /\ Len(calls[2].out.val.state.buildings) = INTERSECTIONS

----------------------------------------------------------------------------
(* Termination of the searches *)

\* the longest-road search has entered no vertex twice
VisitsOnce ==
    \A i, j \in DOMAIN search.entered : search.entered[i] = search.entered[j] => i = j

\* every recursive call of the purchase search works on a stock without a
\* negative field that is smaller than its caller's in at least one field
SmallerStocks ==
    search.kind = "buys"
    => \A d \in 2 .. Len(search.stack) :
          /\ is_positive(search.stack[d].stock)
          /\ \E f \in ResourceFields : search.stack[d].stock[f] < search.stack[d - 1].stock[f]

\* a search that was called ends
SearchEnds == (search.pc \notin {"idle", "done"}) ~> (search.pc = "done")

\* C24: the longest-road search started at intersection 6 enters each
\* vertex at most once and ends, also on graphs with a cycle or a path from
\* an intersection to itself; the purchase search ends for every starting
\* stock, each recursive call working on a stock that is never negative and
\* strictly smaller in at least one field.
C24_SearchesTerminate ==
    /\ [](VisitsOnce /\ SmallerStocks)
    /\ SearchEnds

\* C24, restricted: the same, the stocks of the recursive calls being
\* smaller in a field whenever the starting stock has every field in
\* -125..127
C24_SearchesTerminateAboveLowEdge ==
    /\ [](VisitsOnce /\ (AboveLowEdge(search.start) => SmallerStocks))
    /\ SearchEnds

\* C24 happens: the longest-road search has ended on the chain that leads
\* from intersection 6 to the path from 45 to itself, with the length the
\* query reports
C24_Witness ==
    /\ search.pc = "done"
    /\ search.kind = "dfs"
    /\ 61 \in OwnedPathIds(game, search.player)
    /\ 45 \in search.visited
    /\ search.result = longest_road(game, search.player)
    /\ search.result = Ok(8)

====
